---- MODULE Spec2Model ----
(***************************************************************************)
(* Judging & trading consensus engine of alpha-channel-media.              *)
(*                                                                         *)
(* The relational store is the shared state; every HTTP handler and the    *)
(* submit-rating socket handler is a process that runs one db.query per    *)
(* step (each `await db.query` is one atomic statement of the store, and   *)
(* other handlers may run between two awaits).                             *)
(*                                                                         *)
(* Numbers: ratings are integers; an AVG is kept as the exact fraction     *)
(* sum/n (n = 0 is SQL NULL); NUMERIC(5,2) columns hold hundredths;        *)
(* NUMERIC(10,2) money columns hold cents. The settlement loop compares    *)
(* JS numbers: there the values are IEEE 754 doubles.                      *)
(***************************************************************************)
EXTENDS Integers, Sequences, FiniteSets, TLC

\* ---------------------------------------------------------------- bounds
NumSessions == 2
MainSessions == 1
MainJudges == 1
NumUsers == 1
NumJudges == 3
MaxSnapshots == 1
NumPlaceReq == 2
NumSettleReq == 2
NumStartReq == 2
NumRateReq == 2
MaxInFlight == 2
MaxTrades == 2
TradingTrades == 3
MaxCalcJudges == 10
MaxCalcSnapshots == 3
MaxCalcTime == 2
MaxDrawnSnapshots == 3
DrawnTrades == 2
DrawnInFlight == 1
MaxNow == 2
AdmissionTrades == 2
AdmissionInFlight == 2
RatingJudges == 2
RatingSnapshots == 2
RatingInFlight == 2
NumApplicants == 1
MaxApps == 3
MaxRatings == 3
JudgesInFlight == 2
NumAnchors == 5
NumApplyReq == 2
NumScreenReq == 2

Sessions == 1..NumSessions
Users == 1..NumUsers
JudgeIds == 1..NumJudges
PlaceReqs == 1..NumPlaceReq
SettleReqs == 1..NumSettleReq
StartReqs == 1..NumStartReq
RateReqs == 1..NumRateReq
ApplyReqs == 1..NumApplyReq
ScreenReqs == 1..NumScreenReq

\* request bodies the handlers are driven with
Directions == {"over", "under"}
Amounts == {5000}
\* ratings arrive as JS numbers: modelled in tenths (10 is the rating 1.0)
RatingInputs == {0, 10}
\* trading_window_minutes of a start request (0: absent)
Windows == {0}

VARIABLES
    sessions,   \* judging_sessions rows
    ledger,     \* judge_rating_snapshots rows, in insertion order
    traders,    \* traders rows, by (user_id, user_type)
    trades,     \* trades rows, in insertion order (the index is the id)
    judges,     \* judges rows
    ended,      \* session-ended events emitted to each session room
    updates,    \* consensus-update events emitted to each session room
    placeReq,   \* POST /trades handlers in flight
    startReq,   \* PATCH /sessions/:id/start handlers in flight
    settleReq,  \* POST /sessions/:id/settle handlers in flight
    rateReq,    \* submit-rating handlers in flight
    calc,       \* input/result of the pure computations (SpecCalc only)
    apps,       \* judge_applications rows, in insertion order
    applyReq,   \* POST /judges/apply handlers in flight
    screenReq,  \* POST /judges/screening/:applicationId/submit handlers in flight
    now,        \* the clock (NOW(), Date.now()), in ticks
    reply       \* the last HTTP response, where responses are observed

vars == <<sessions, ledger, traders, trades, judges, ended, updates,
          placeReq, startReq, settleReq, rateReq, calc,
          apps, applyReq, screenReq, now, reply>>

appVars == <<apps, applyReq, screenReq>>

dbVars == <<sessions, ledger, traders, trades, judges>>

\* ------------------------------------------------------------- SQL values
Null == <<>>
Some(v) == <<v>>

\* NUMERIC(p,2) assignment of the fraction num/den (den > 0), given in units
\* of 1/100: rounds half away from zero
RoundDiv(num, den) ==
    IF num >= 0 THEN (2 * num + den) \div (2 * den)
    ELSE 0 - ((2 * (0 - num) + den) \div (2 * den))

\* a fraction sum/n as NUMERIC(5,2) hundredths
Round2(avg) == RoundDiv(100 * avg.sum, avg.n)

\* ------------------------------------------------------------ table rows
NoSession ==
    [status |-> "none", finalConsensus |-> Null, judgeCount |-> 0,
     actualStart |-> Null, tradingWindowEnd |-> Null]

NoTrader == [exists |-> FALSE]

NewTrader ==
    [exists |-> TRUE, balance |-> 10000, totalTrades |-> 0, winningTrades |-> 0,
     losingTrades |-> 0, totalProfitLoss |-> 0, currentStreak |-> 0,
     bestStreak |-> 0]

NewJudge == [status |-> "active", sessionsJudged |-> 0, totalRatings |-> 0]

\* no judges row for the identity
NoJudge == [status |-> "none", sessionsJudged |-> 0, totalRatings |-> 0]

\* anchor_songs: id -> correct_rating
AnchorSongs == [a \in 1..NumAnchors |-> 50]

\* ------------------------------------------------------- consensus query
\* rows of one judge in one session
JudgeRows(led, s, j) ==
    {i \in DOMAIN led : led[i].sessionId = s /\ led[i].judgeId = j}

\* judges with at least one row in the session
Contributors(led, s) ==
    {led[i].judgeId : i \in {k \in DOMAIN led : led[k].sessionId = s}}

\* mutant: ORDER BY judge_id, timestamp ASC keeps the oldest row of each judge
FirstRowsAscending(led, s, j) ==
    {i \in JudgeRows(led, s, j) :
        ~ \E k \in JudgeRows(led, s, j) : led[k].timestamp < led[i].timestamp}

\* DISTINCT ON (judge_id) ... ORDER BY judge_id, timestamp DESC keeps the first
\* row of each judge after the sort: a row no other row of the judge precedes.
\* Rows with equal timestamps may be sorted either way.
FirstRows(led, s, j) ==
    {i \in JudgeRows(led, s, j) :
        ~ \E k \in JudgeRows(led, s, j) : led[k].timestamp > led[i].timestamp}

DistinctOn(led, s) ==
    {f \in [Contributors(led, s) -> DOMAIN led] :
        \A j \in Contributors(led, s) : f[j] \in FirstRows(led, s, j)}

RECURSIVE SumRatings(_, _, _)
SumRatings(led, f, js) ==
    IF js = {} THEN 0
    ELSE LET j == CHOOSE x \in js : TRUE
         IN led[f[j]].rating + SumRatings(led, f, js \ {j})

\* SELECT AVG(sub.rating), COUNT(DISTINCT sub.judge_id): the possible results
ConsensusQuery(led, s) ==
    {[sum |-> SumRatings(led, f, Contributors(led, s)),
      n |-> Cardinality(Contributors(led, s))] : f \in DistinctOn(led, s)}

\* ------------------------------------------------ conversions in the code
\* Math.round of a number given in tenths
JsRound(tenths) == (tenths + 5) \div 10

Max2(a, b) == IF a >= b THEN a ELSE b
Min2(a, b) == IF a <= b THEN a ELSE b

\* mutant: Math.min(100, Math.round(rating)) alone
ClampRatingNoFloor(tenths) == Min2(100, JsRound(tenths))

\* Math.max(0, Math.min(100, Math.round(rating)))
ClampRating(tenths) == Max2(0, Min2(100, JsRound(tenths)))

\* mutant: the average taken as a number, so that 0 is falsy and becomes 50
EntrySentimentNumber(avg) ==
    IF avg.n = 0 \/ avg.sum = 0 THEN [sum |-> 50, n |-> 1] ELSE avg

\* consensus.rows[0]?.current_consensus || 50: node-postgres hands a NUMERIC
\* back as a string, so every non-NULL average (also "0.000") is truthy
EntrySentiment(avg) == IF avg.n = 0 THEN [sum |-> 50, n |-> 1] ELSE avg

\* mutant: the default of placeTrade, || 50, used at settlement
FinalConsensusDefault50(avg) ==
    IF avg.n = 0 \/ avg.sum = 0 THEN [sum |-> 50, n |-> 1] ELSE avg

\* parseFloat(consensus.rows[0]?.final_consensus) || 0: NaN and 0 both give 0
FinalConsensus(avg) == IF avg.n = 0 \/ avg.sum = 0 THEN [sum |-> 0, n |-> 1] ELSE avg

\* parseInt(consensus.rows[0]?.judge_count) || 0
JudgeCount(avg) == avg.n

\* ------------------------------------------------------------ JS numbers
\* A JS number is an IEEE 754 double: 0, or a mantissa m of 53 bits (most
\* significant first, m[1] = 1) and an exponent e, of value m * 2^e. Only
\* non-negative values occur (ratings are clamped to 0..100).
Zero == [m |-> <<>>, e |-> 0]

RECURSIVE IntBits(_)
IntBits(n) == IF n = 0 THEN <<>> ELSE Append(IntBits(n \div 2), n % 2)

ZeroBits(k) == [i \in 1..k |-> 0]

PadLeft(bits, n) == ZeroBits(n - Len(bits)) \o bits

\* bits without its leading zeros
StripZeros(bits) ==
    IF \A i \in DOMAIN bits : bits[i] = 0 THEN <<>>
    ELSE SubSeq(bits, CHOOSE i \in DOMAIN bits :
                          bits[i] = 1 /\ \A j \in 1..(i - 1) : bits[j] = 0,
                Len(bits))

\* bits + 1
Inc(bits) ==
    IF \A i \in DOMAIN bits : bits[i] = 1 THEN <<1>> \o ZeroBits(Len(bits))
    ELSE LET p == CHOOSE i \in DOMAIN bits :
                      bits[i] = 0 /\ \A j \in (i + 1)..Len(bits) : bits[j] = 1
         IN [i \in DOMAIN bits |-> IF i < p THEN bits[i] ELSE IF i = p THEN 1 ELSE 0]

\* the double nearest to bits * 2^e (ties to even); bits has a leading 1 and
\* sticky tells of a non-zero remainder below its last bit
RoundNearestEven(bits, e, sticky) ==
    IF Len(bits) <= 53
    THEN [m |-> bits \o ZeroBits(53 - Len(bits)), e |-> e - (53 - Len(bits))]
    ELSE LET mant == SubSeq(bits, 1, 53)
             rest == sticky \/ \E i \in 55..Len(bits) : bits[i] = 1
             up == bits[54] = 1 /\ (rest \/ mant[53] = 1)
             r == IF up THEN Inc(mant) ELSE mant
             e1 == e + (Len(bits) - 53)
         IN IF Len(r) = 54 THEN [m |-> SubSeq(r, 1, 53), e |-> e1 + 1]
            ELSE [m |-> r, e |-> e1]

\* 2^k modulo den
RECURSIVE Pow2Mod(_, _)
Pow2Mod(k, den) ==
    IF k <= 20 THEN (2 ^ k) % den
    ELSE (Pow2Mod(k - 20, den) * ((2 ^ 20) % den)) % den

\* the remainder of num/den after k binary places, and the k-th binary place
Rem(num, den, k) == ((num % den) * Pow2Mod(k, den)) % den
FracBit(num, den, k) == (2 * Rem(num, den, k - 1)) \div den

\* parseFloat of the decimal text of num/den (a NUMERIC(5,2), or an AVG, whose
\* text carries at least 16 decimals): the double nearest to num/den, from 54
\* significant bits of its binary expansion
ParseFloat(num, den) ==
    IF num = 0 THEN Zero
    ELSE IF num >= den
    THEN LET ib == IntBits(num \div den)
             nf == 54 - Len(ib)
         IN RoundNearestEven(ib \o [k \in 1..nf |-> FracBit(num, den, k)],
                             0 - nf, Rem(num, den, nf) # 0)
    ELSE LET z == CHOOSE k \in 1..den :
                      FracBit(num, den, k) = 1
                      /\ \A j \in 1..(k - 1) : FracBit(num, den, j) = 0
         IN RoundNearestEven([i \in 1..54 |-> FracBit(num, den, z - 1 + i)],
                             0 - (z + 53), Rem(num, den, z + 53) # 0)

\* the mantissa of a as an integer in units of 2^min(a.e, b.e)
Aligned(a, b) == a.m \o ZeroBits(a.e - Min2(a.e, b.e))

\* x < y, for bit strings of one length
LessBits(x, y) ==
    \E i \in DOMAIN x : x[i] < y[i] /\ \A j \in 1..(i - 1) : x[j] = y[j]

\* a < b
FloatLess(a, b) ==
    IF b.m = <<>> THEN FALSE
    ELSE IF a.m = <<>> THEN TRUE
    ELSE LET n == Max2(Len(Aligned(a, b)), Len(Aligned(b, a)))
         IN LessBits(PadLeft(Aligned(a, b), n), PadLeft(Aligned(b, a), n))

\* x - y (x >= y), for bit strings of one length: place i borrows when the
\* places below it hold less in x than in y
SubBits(x, y) ==
    [i \in DOMAIN x |->
        (x[i] - y[i]
         - (IF LessBits(SubSeq(x, i + 1, Len(x)), SubSeq(y, i + 1, Len(y)))
            THEN 1 ELSE 0)) % 2]

\* Math.abs(a - b): the exact difference, rounded to a double
FloatAbsDiff(a, b) ==
    IF a.m = <<>> THEN b
    ELSE IF b.m = <<>> THEN a
    ELSE LET n == Max2(Len(Aligned(a, b)), Len(Aligned(b, a)))
             x == PadLeft(Aligned(a, b), n)
             y == PadLeft(Aligned(b, a), n)
             d == StripZeros(IF LessBits(x, y) THEN SubBits(y, x) ELSE SubBits(x, y))
         IN IF d = <<>> THEN Zero ELSE RoundNearestEven(d, Min2(a.e, b.e), FALSE)

\* a < 0.5 (0.5 is 2^52 * 2^-53)
LessThanHalf(a) == a.m = <<>> \/ a.e < 0 - 53

\* ----------------------------------------------------- trade resolution
\* fc is the fraction the handler parses into finalConsensus, entry the stored
\* entry_sentiment in hundredths; both are compared as JS numbers
Outcome(direction, fc, entry) ==
    LET finalConsensus == ParseFloat(fc.sum, fc.n)
        e == ParseFloat(entry, 100)
    IN IF LessThanHalf(FloatAbsDiff(finalConsensus, e)) THEN "push"
       ELSE IF direction = "over" /\ FloatLess(e, finalConsensus) THEN "win"
       ELSE IF direction = "under" /\ FloatLess(finalConsensus, e) THEN "win"
       ELSE "loss"

\* mutant: a push pays nothing back
PayoutNoRefund(outcome, amount) == IF outcome = "win" THEN 18 * amount ELSE 0

\* payout in tenths of a cent (amount * 1.8 need not be whole cents)
Payout(outcome, amount) ==
    IF outcome = "push" THEN 10 * amount
    ELSE IF outcome = "win" THEN 18 * amount
    ELSE 0

\* mutant: best_streak = current_streak + 1 without GREATEST
SettleTraderNoGreatest(row, outcome, amount) ==
    IF outcome = "win" THEN
        [row EXCEPT
            !.balance = RoundDiv(10 * row.balance + Payout(outcome, amount), 10),
            !.winningTrades = row.winningTrades + 1,
            !.currentStreak = row.currentStreak + 1,
            !.bestStreak = row.currentStreak + 1,
            !.totalProfitLoss =
                RoundDiv(10 * row.totalProfitLoss
                         + (Payout(outcome, amount) - 10 * amount), 10)]
    ELSE IF outcome = "loss" THEN
        [row EXCEPT
            !.losingTrades = row.losingTrades + 1,
            !.currentStreak = 0,
            !.totalProfitLoss = row.totalProfitLoss - amount]
    ELSE
        [row EXCEPT
            !.balance = RoundDiv(10 * row.balance + Payout(outcome, amount), 10)]

\* the UPDATE traders statement of each outcome; amount in cents
SettleTrader(row, outcome, amount) ==
    IF outcome = "win" THEN
        [row EXCEPT
            !.balance = RoundDiv(10 * row.balance + Payout(outcome, amount), 10),
            !.winningTrades = row.winningTrades + 1,
            !.currentStreak = row.currentStreak + 1,
            !.bestStreak = Max2(row.bestStreak, row.currentStreak + 1),
            !.totalProfitLoss =
                RoundDiv(10 * row.totalProfitLoss
                         + (Payout(outcome, amount) - 10 * amount), 10)]
    ELSE IF outcome = "loss" THEN
        [row EXCEPT
            !.losingTrades = row.losingTrades + 1,
            !.currentStreak = 0,
            !.totalProfitLoss = row.totalProfitLoss - amount]
    ELSE
        [row EXCEPT
            !.balance = RoundDiv(10 * row.balance + Payout(outcome, amount), 10)]

\* the UPDATE trades statement of settlement
SettleTrade(row, fc) ==
    [row EXCEPT
        !.status = "settled",
        !.outcome = Outcome(row.direction, fc, row.entrySentiment),
        !.finalSentiment = Some(Round2(fc)),
        !.payout = Some(RoundDiv(Payout(Outcome(row.direction, fc, row.entrySentiment),
                                        row.amount), 10))]

\* ------------------------------------------------------------ handlers
\* HTTP responses are recorded where a client observes them: reply is the last
\* one sent, or stays Unobserved
Unobserved == [op |-> "unobserved"]
NoReply == [op |-> "none"]
Reply(op, code, error) == [op |-> op, code |-> code, error |-> error]
Respond(r) == reply' = IF reply = Unobserved THEN reply ELSE r

IdlePlace == [pc |-> "idle"]
IdleApply == [pc |-> "idle"]
IdleScreen == [pc |-> "idle"]
IdleStart == [pc |-> "idle"]
IdleSettle == [pc |-> "idle"]
IdleRate == [pc |-> "idle"]

Init ==
    /\ sessions = [s \in Sessions |-> NoSession]
    /\ ledger = <<>>
    /\ traders = [u \in Users |-> NoTrader]
    /\ trades = <<>>
    /\ judges = [j \in JudgeIds |-> NewJudge]
    /\ ended = [s \in Sessions |-> <<>>]
    /\ updates = [s \in Sessions |-> <<>>]
    /\ placeReq = [p \in PlaceReqs |-> IdlePlace]
    /\ startReq = [p \in StartReqs |-> IdleStart]
    /\ settleReq = [p \in SettleReqs |-> IdleSettle]
    /\ rateReq = [p \in RateReqs |-> IdleRate]
    /\ calc = [op |-> "none"]
    /\ apps = <<>>
    /\ applyReq = [p \in ApplyReqs |-> IdleApply]
    /\ screenReq = [p \in ScreenReqs |-> IdleScreen]
    /\ now = 0
    /\ reply = Unobserved

\* handlers between their first and their last statement
InFlight ==
    Cardinality({p \in PlaceReqs : placeReq[p].pc # "idle"})
    + Cardinality({p \in StartReqs : startReq[p].pc # "idle"})
    + Cardinality({p \in SettleReqs : settleReq[p].pc # "idle"})
    + Cardinality({p \in RateReqs : rateReq[p].pc # "idle"})
    + Cardinality({p \in ApplyReqs : applyReq[p].pc # "idle"})
    + Cardinality({p \in ScreenReqs : screenReq[p].pc # "idle"})

\* handler slots are anonymous: a new request takes the lowest idle one
Lowest(req, p) == \A q \in DOMAIN req : q < p => req[q].pc # "idle"

\* environment: a new request is taken up while fewer than k are being handled,
\* at most k trades are placed, at most k ratings are submitted
Admit(k) == InFlight < k

TradeBudget(k) ==
    Len(trades) + Cardinality({p \in PlaceReqs : placeReq[p].pc # "idle"}) < k

RatingBudget(k) ==
    Len(ledger) + Cardinality({p \in RateReqs : rateReq[p].pc = "insert"}) < k

\* the clock advances by one tick, up to k
Tick(k) ==
    /\ now < k
    /\ now' = now + 1
    /\ UNCHANGED <<appVars, reply, dbVars, ended, updates, placeReq, startReq, settleReq,
                   rateReq, calc>>

\* the clock advances to the next of the given instants
Advance(instants) ==
    /\ \E d \in instants :
          /\ d > now
          /\ \A e \in instants : e > now => d <= e
          /\ now' = d
    /\ UNCHANGED <<appVars, reply, dbVars, ended, updates, placeReq, startReq, settleReq,
                   rateReq, calc>>

\* POST /sessions: INSERT ... status 'scheduled' (ids are handed out in order)
CreateSession(s) ==
    /\ sessions[s].status = "none"
    /\ \A t \in Sessions : t < s => sessions[t].status # "none"
    /\ sessions' = [sessions EXCEPT ![s] = [NoSession EXCEPT !.status = "scheduled"]]
    /\ UNCHANGED <<appVars, now, reply, ledger, traders, trades, judges, ended, updates,
                   placeReq, startReq, settleReq, rateReq, calc>>

\* PATCH /sessions/:id/start, SELECT: 400 unless the status is 'scheduled';
\* w is the body's trading_window_minutes (0 when absent)
StartSelect(p, s, w) ==
    /\ Lowest(startReq, p)
    /\ startReq[p].pc = "idle"
    /\ sessions[s].status = "scheduled"
    /\ startReq' = [startReq EXCEPT ![p] = [pc |-> "update", session |-> s, window |-> w]]
    /\ UNCHANGED <<appVars, now, reply, dbVars, ended, updates, placeReq, settleReq, rateReq, calc>>

StartReject(p, s) ==
    /\ Lowest(startReq, p)
    /\ startReq[p].pc = "idle"
    /\ sessions[s].status # "scheduled"
    /\ Respond(IF sessions[s].status = "none"
               THEN Reply("startSession", 404, "Session not found")
               ELSE Reply("startSession", 400, "Session is not in scheduled state"))
    /\ UNCHANGED <<appVars, now, dbVars, ended, updates, placeReq, startReq, settleReq,
                   rateReq, calc>>

\* trading_window_minutes ? new Date(Date.now() + minutes * 60 * 1000) : null
TradingEnd(w) == IF w = 0 THEN Null ELSE Some(now + w)

\* UPDATE judging_sessions SET status = 'live', actual_start = NOW(),
\*                             trading_window_end = $1 WHERE id = $2
StartSession(row, w) ==
    [row EXCEPT !.status = "live", !.actualStart = Some(now),
                !.tradingWindowEnd = TradingEnd(w)]

StartUpdate(p) ==
    /\ startReq[p].pc = "update"
    /\ sessions' = [sessions EXCEPT ![startReq[p].session] =
            StartSession(sessions[startReq[p].session], startReq[p].window)]
    /\ startReq' = [startReq EXCEPT ![p] = IdleStart]
    /\ Respond(Reply("startSession", 200, "none"))
    /\ UNCHANGED <<appVars, now, ledger, traders, trades, judges, ended, updates,
                   placeReq, settleReq, rateReq, calc>>

\* ---------------------------------------------------------- POST /trades
PendingOf(s, u) ==
    {i \in DOMAIN trades :
        trades[i].sessionId = s /\ trades[i].userId = u /\ trades[i].status = "pending"}

\* mutant: the amount has no upper limit
ValidTradeNoMaximum(d, a) == d \in {"over", "under"} /\ a > 0

\* the direction and amount checks of the request body
ValidTrade(d, a) == d \in {"over", "under"} /\ a > 0 /\ a <= 5000

\* trading_window_end && new Date(trading_window_end) < new Date()
WindowClosed(row) == row.tradingWindowEnd # Null /\ row.tradingWindowEnd[1] < now

\* the 400/404 of the validation and of the session checks, in the code's
\* order; "none" when the request passes them
PlaceError(s, d, a) ==
    IF d = "" \/ a = 0 THEN "sessionId, direction, and amount are required"
    ELSE IF ~ ValidTrade(d, a)
         THEN IF d \notin {"over", "under"} THEN "Direction must be \"over\" or \"under\""
              ELSE "Amount must be between 0.01 and 50"
    ELSE IF sessions[s].status = "none" THEN "Session not found"
    ELSE IF sessions[s].status # "live" THEN "Session is not live"
    ELSE IF WindowClosed(sessions[s]) THEN "Trading window has closed"
    ELSE "none"

\* validation, then SELECT ... FROM judging_sessions: the session must be live
\* and its trading window, if any, not over
PlaceSelectSession(p, u, s, d, a) ==
    /\ Lowest(placeReq, p)
    /\ placeReq[p].pc = "idle"
    /\ ValidTrade(d, a)
    /\ PlaceError(s, d, a) = "none"
    /\ placeReq' = [placeReq EXCEPT ![p] =
            [pc |-> "trader", user |-> u, session |-> s, direction |-> d, amount |-> a]]
    /\ UNCHANGED <<appVars, now, reply, dbVars, ended, updates, startReq, settleReq, rateReq, calc>>

\* 400 (validation, not live, window closed) or 404
PlaceReject(p, u, s, d, a) ==
    /\ Lowest(placeReq, p)
    /\ placeReq[p].pc = "idle"
    /\ PlaceError(s, d, a) # "none"
    /\ Respond(Reply("placeTrade",
                     IF PlaceError(s, d, a) = "Session not found" THEN 404 ELSE 400,
                     PlaceError(s, d, a)))
    /\ UNCHANGED <<appVars, now, dbVars, ended, updates, placeReq, startReq, settleReq,
                   rateReq, calc>>

\* SELECT id, play_money_balance FROM traders; a found row is checked at once
PlaceSelectTrader(p) ==
    LET r == placeReq[p] IN
    /\ r.pc = "trader"
    /\ placeReq' = [placeReq EXCEPT ![p] =
            IF ~ traders[r.user].exists THEN [r EXCEPT !.pc = "createTrader"]
            ELSE IF traders[r.user].balance < r.amount THEN IdlePlace
            ELSE [r EXCEPT !.pc = "existing"]]
    /\ IF traders[r.user].exists /\ traders[r.user].balance < r.amount
       THEN Respond(Reply("placeTrade", 400, "Insufficient balance"))
       ELSE UNCHANGED reply
    /\ UNCHANGED <<appVars, now, dbVars, ended, updates, startReq, settleReq, rateReq, calc>>

\* INSERT INTO traders: UNIQUE(user_id, user_type) makes a second insert throw;
\* the new row holds the default balance 100.00 >= amount
PlaceCreateTrader(p) ==
    LET r == placeReq[p] IN
    /\ r.pc = "createTrader"
    /\ IF traders[r.user].exists
       THEN /\ placeReq' = [placeReq EXCEPT ![p] = IdlePlace]
            /\ Respond(Reply("placeTrade", 500, "Failed to place trade"))
            /\ UNCHANGED traders
       ELSE /\ traders' = [traders EXCEPT ![r.user] = NewTrader]
            /\ placeReq' = [placeReq EXCEPT ![p] = [r EXCEPT !.pc = "existing"]]
            /\ UNCHANGED reply
    /\ UNCHANGED <<appVars, now, sessions, ledger, trades, judges, ended, updates,
                   startReq, settleReq, rateReq, calc>>

\* SELECT id FROM trades WHERE ... status = 'pending'
PlaceSelectExisting(p) ==
    LET r == placeReq[p] IN
    /\ r.pc = "existing"
    /\ placeReq' = [placeReq EXCEPT ![p] =
            IF PendingOf(r.session, r.user) # {} THEN IdlePlace
            ELSE [r EXCEPT !.pc = "consensus"]]
    /\ IF PendingOf(r.session, r.user) # {}
       THEN Respond(Reply("placeTrade", 400,
                          "You already have an active trade on this session"))
       ELSE UNCHANGED reply
    /\ UNCHANGED <<appVars, now, dbVars, ended, updates, startReq, settleReq, rateReq, calc>>

\* SELECT AVG(sub.rating) as current_consensus
PlaceSelectConsensus(p) ==
    LET r == placeReq[p] IN
    /\ r.pc = "consensus"
    /\ \E avg \in ConsensusQuery(ledger, r.session) :
          placeReq' = [placeReq EXCEPT ![p] =
              [pc |-> "debit", user |-> r.user, session |-> r.session,
               direction |-> r.direction, amount |-> r.amount,
               entry |-> EntrySentiment(avg)]]
    /\ UNCHANGED <<appVars, now, reply, dbVars, ended, updates, startReq, settleReq, rateReq, calc>>

\* UPDATE traders SET play_money_balance = play_money_balance - $1,
\*                    total_trades = total_trades + 1
DebitTrader(row, amount) ==
    [row EXCEPT !.balance = row.balance - amount,
                !.totalTrades = row.totalTrades + 1]

PlaceDebit(p) ==
    LET r == placeReq[p] IN
    /\ r.pc = "debit"
    /\ traders' = [traders EXCEPT ![r.user] = DebitTrader(traders[r.user], r.amount)]
    /\ placeReq' = [placeReq EXCEPT ![p] = [r EXCEPT !.pc = "insert"]]
    /\ UNCHANGED <<appVars, now, reply, sessions, ledger, trades, judges, ended, updates,
                   startReq, settleReq, rateReq, calc>>

\* the row of INSERT INTO trades (..., 'pending'); entry_sentiment is NUMERIC(5,2)
NewTrade(r) ==
    [sessionId |-> r.session, userId |-> r.user, direction |-> r.direction,
     entrySentiment |-> Round2(r.entry), finalSentiment |-> Null,
     amount |-> r.amount, payout |-> Null, outcome |-> "none", status |-> "pending"]

\* what the trades table accepts: it has no unique constraint on open positions
InsertTradeAllowed(r) == TRUE

PlaceInsert(p) ==
    LET r == placeReq[p] IN
    /\ r.pc = "insert"
    /\ InsertTradeAllowed(r)
    /\ trades' = Append(trades, NewTrade(r))
    /\ placeReq' = [placeReq EXCEPT ![p] = IdlePlace]
    /\ Respond(Reply("placeTrade", 201, "none"))
    /\ UNCHANGED <<appVars, now, sessions, ledger, traders, judges, ended, updates,
                   startReq, settleReq, rateReq, calc>>

\* the INSERT throws (data-layer failure): catch, 500, nothing is undone
PlaceInsertFails(p) ==
    /\ placeReq[p].pc = "insert"
    /\ placeReq' = [placeReq EXCEPT ![p] = IdlePlace]
    /\ Respond(Reply("placeTrade", 500, "Failed to place trade"))
    /\ UNCHANGED <<appVars, now, dbVars, ended, updates, startReq, settleReq, rateReq, calc>>

\* ------------------------------------------------ POST /sessions/:id/settle
\* SELECT id, status: 400 only when the status is 'completed'
SettleSelect(p, s) ==
    /\ Lowest(settleReq, p)
    /\ settleReq[p].pc = "idle"
    /\ sessions[s].status \notin {"none", "completed"}
    /\ settleReq' = [settleReq EXCEPT ![p] = [pc |-> "consensus", session |-> s]]
    /\ UNCHANGED <<appVars, now, reply, dbVars, ended, updates, placeReq, startReq, rateReq, calc>>

SettleReject(p, s) ==
    /\ Lowest(settleReq, p)
    /\ settleReq[p].pc = "idle"
    /\ sessions[s].status \in {"none", "completed"}
    /\ Respond(IF sessions[s].status = "none"
               THEN Reply("settleSession", 404, "Session not found")
               ELSE Reply("settleSession", 400, "Session already settled"))
    /\ UNCHANGED <<appVars, now, dbVars, ended, updates, placeReq, startReq, settleReq,
                   rateReq, calc>>

\* SELECT AVG(sub.rating) as final_consensus, COUNT(DISTINCT sub.judge_id)
SettleSelectConsensus(p) ==
    LET r == settleReq[p] IN
    /\ r.pc = "consensus"
    /\ \E avg \in ConsensusQuery(ledger, r.session) :
          settleReq' = [settleReq EXCEPT ![p] =
              [pc |-> "complete", session |-> r.session,
               finalConsensus |-> FinalConsensus(avg), judgeCount |-> JudgeCount(avg)]]
    /\ UNCHANGED <<appVars, now, reply, dbVars, ended, updates, placeReq, startReq, rateReq, calc>>

\* UPDATE judging_sessions SET status = 'completed', final_consensus, judge_count
CompleteSession(row, fc, n) ==
    [row EXCEPT !.status = "completed", !.finalConsensus = Some(Round2(fc)),
                !.judgeCount = n]

SettleComplete(p) ==
    LET r == settleReq[p] IN
    /\ r.pc = "complete"
    /\ sessions' = [sessions EXCEPT ![r.session] =
            CompleteSession(sessions[r.session], r.finalConsensus, r.judgeCount)]
    /\ settleReq' = [settleReq EXCEPT ![p] = [r EXCEPT !.pc = "trades"]]
    /\ UNCHANGED <<appVars, now, reply, ledger, traders, trades, judges, ended, updates,
                   placeReq, startReq, rateReq, calc>>

\* ids of the pending trades of a session, in insertion order
RECURSIVE PendingIds(_, _)
PendingIds(s, i) ==
    IF i > Len(trades) THEN <<>>
    ELSE IF trades[i].sessionId = s /\ trades[i].status = "pending"
         THEN <<i>> \o PendingIds(s, i + 1)
         ELSE PendingIds(s, i + 1)

\* after a loop body or a SELECT: the next trade, else the judge counts
AfterTrades(rows) == IF rows = <<>> THEN "judges" ELSE "trade"

\* SELECT t.* FROM trades t JOIN traders ... WHERE status = 'pending'
SettleSelectTrades(p) ==
    LET r == settleReq[p]
        rows == PendingIds(r.session, 1) IN
    /\ r.pc = "trades"
    /\ settleReq' = [settleReq EXCEPT ![p] =
            [pc |-> AfterTrades(rows), session |-> r.session,
             finalConsensus |-> r.finalConsensus, judgeCount |-> r.judgeCount,
             rows |-> rows, settled |-> 0]]
    /\ UNCHANGED <<appVars, now, reply, dbVars, ended, updates, placeReq, startReq, rateReq, calc>>

\* UPDATE trades SET status = 'settled', outcome, final_sentiment, payout
SettleUpdateTrade(p) ==
    LET r == settleReq[p]
        id == Head(r.rows) IN
    /\ r.pc = "trade"
    /\ trades' = [trades EXCEPT ![id] = SettleTrade(trades[id], r.finalConsensus)]
    /\ settleReq' = [settleReq EXCEPT ![p] = [r EXCEPT !.pc = "trader"]]
    /\ UNCHANGED <<appVars, now, reply, sessions, ledger, traders, judges, ended, updates,
                   placeReq, startReq, rateReq, calc>>

\* UPDATE traders SET ... for the outcome of the trade; settled++
SettleUpdateTrader(p) ==
    LET r == settleReq[p]
        t == trades[Head(r.rows)]
        o == Outcome(t.direction, r.finalConsensus, t.entrySentiment) IN
    /\ r.pc = "trader"
    /\ traders' = [traders EXCEPT ![t.userId] = SettleTrader(traders[t.userId], o, t.amount)]
    /\ settleReq' = [settleReq EXCEPT ![p] =
            [r EXCEPT !.pc = AfterTrades(Tail(r.rows)), !.rows = Tail(r.rows),
                      !.settled = r.settled + 1]]
    /\ UNCHANGED <<appVars, now, reply, sessions, ledger, trades, judges, ended, updates,
                   placeReq, startReq, rateReq, calc>>

AfterJudges(js) == IF js = {} THEN "emit" ELSE "judge"

\* SELECT DISTINCT judge_id FROM judge_rating_snapshots WHERE session_id
SettleSelectJudges(p) ==
    LET r == settleReq[p]
        js == Contributors(ledger, r.session) IN
    /\ r.pc = "judges"
    /\ settleReq' = [settleReq EXCEPT ![p] =
            [pc |-> AfterJudges(js), session |-> r.session,
             finalConsensus |-> r.finalConsensus, judgeCount |-> r.judgeCount,
             settled |-> r.settled, judgeIds |-> js]]
    /\ UNCHANGED <<appVars, now, reply, dbVars, ended, updates, placeReq, startReq, rateReq, calc>>

\* UPDATE judges SET sessions_judged + 1, total_ratings + COUNT(*) of the judge
CountJudge(row, cnt) ==
    [row EXCEPT !.sessionsJudged = row.sessionsJudged + 1,
                !.totalRatings = row.totalRatings + cnt]

\* one loop body: SELECT COUNT(*) and the UPDATE (the rows are taken in id order)
SettleUpdateJudge(p) ==
    LET r == settleReq[p]
        j == CHOOSE x \in r.judgeIds : \A y \in r.judgeIds : x <= y IN
    /\ r.pc = "judge"
    /\ judges' = [judges EXCEPT ![j] =
            CountJudge(judges[j], Cardinality(JudgeRows(ledger, r.session, j)))]
    /\ settleReq' = [settleReq EXCEPT ![p] =
            [r EXCEPT !.pc = AfterJudges(r.judgeIds \ {j}), !.judgeIds = r.judgeIds \ {j}]]
    /\ UNCHANGED <<appVars, now, reply, sessions, ledger, traders, trades, ended, updates,
                   placeReq, startReq, rateReq, calc>>

\* a statement after the completing UPDATE throws (data-layer failure): catch,
\* 500 'Failed to settle session', nothing is undone
SettleFails(p) ==
    /\ settleReq[p].pc \in {"trades", "trade", "trader", "judges", "judge"}
    /\ settleReq' = [settleReq EXCEPT ![p] = IdleSettle]
    /\ Respond(Reply("settleSession", 500, "Failed to settle session"))
    /\ UNCHANGED <<appVars, now, dbVars, ended, updates, placeReq, startReq, rateReq, calc>>

\* the session-ended payload; Math.round(finalConsensus * 100) / 100
EndedEvent(r) ==
    [finalConsensus |-> Round2(r.finalConsensus), judgeCount |-> r.judgeCount,
     tradesSettled |-> r.settled]

SettleEmit(p) ==
    LET r == settleReq[p] IN
    /\ r.pc = "emit"
    /\ ended' = [ended EXCEPT ![r.session] = Append(@, EndedEvent(r))]
    /\ settleReq' = [settleReq EXCEPT ![p] = IdleSettle]
    /\ Respond(Reply("settleSession", 200, "none"))
    /\ UNCHANGED <<appVars, now, dbVars, updates, placeReq, startReq, rateReq, calc>>

\* ------------------------------------------------- socket: submit-rating
MaxTimestamp == IF ledger = <<>> THEN 0
                ELSE CHOOSE m \in {ledger[i].timestamp : i \in DOMAIN ledger} :
                        \A i \in DOMAIN ledger : ledger[i].timestamp <= m

\* NOW() of an insert: later than every stored timestamp, or the same instant
\* as the newest row of the same judge and session
Timestamps(s, j) ==
    {MaxTimestamp + 1} \cup
    {ledger[i].timestamp : i \in {k \in JudgeRows(ledger, s, j) :
                                     ledger[k].timestamp = MaxTimestamp}}

\* SELECT the active judge, SELECT the live session (judge rows never change
\* status here, so the two reads are one step); otherwise the message is dropped
RateSelect(p, j, s, rating) ==
    /\ Lowest(rateReq, p)
    /\ rateReq[p].pc = "idle"
    /\ judges[j].status = "active"
    /\ sessions[s].status = "live"
    /\ rateReq' = [rateReq EXCEPT ![p] =
            [pc |-> "insert", judge |-> j, session |-> s, raw |-> rating,
             rating |-> ClampRating(rating)]]
    /\ UNCHANGED <<appVars, now, reply, dbVars, ended, updates, placeReq, startReq, settleReq, calc>>

RateDrop(p, j, s) ==
    /\ Lowest(rateReq, p)
    /\ rateReq[p].pc = "idle"
    /\ judges[j].status # "active" \/ sessions[s].status # "live"
    /\ UNCHANGED vars

\* INSERT INTO judge_rating_snapshots (..., NOW())
RateInsert(p) ==
    LET r == rateReq[p] IN
    /\ r.pc = "insert"
    /\ \E ts \in Timestamps(r.session, r.judge) :
          ledger' = Append(ledger, [sessionId |-> r.session, judgeId |-> r.judge,
                                    rating |-> r.rating, timestamp |-> ts])
    /\ rateReq' = [rateReq EXCEPT ![p] = [r EXCEPT !.pc = "consensus"]]
    /\ UNCHANGED <<appVars, now, reply, sessions, traders, trades, judges, ended, updates,
                   placeReq, startReq, settleReq, calc>>

\* SELECT AVG(sub.rating) as consensus, COUNT(DISTINCT sub.judge_id)
RateSelectConsensus(p) ==
    LET r == rateReq[p] IN
    /\ r.pc = "consensus"
    /\ \E avg \in ConsensusQuery(ledger, r.session) :
          rateReq' = [rateReq EXCEPT ![p] =
              [pc |-> "count", session |-> r.session,
               consensus |-> FinalConsensus(avg), judgeCount |-> JudgeCount(avg)]]
    /\ UNCHANGED <<appVars, now, reply, dbVars, ended, updates, placeReq, startReq, settleReq, calc>>

\* UPDATE judging_sessions SET judge_count = $1 WHERE id, then the
\* consensus-update emit; Math.round(consensusValue * 100) / 100
RateUpdateCount(p) ==
    LET r == rateReq[p] IN
    /\ r.pc = "count"
    /\ sessions' = [sessions EXCEPT ![r.session].judgeCount = r.judgeCount]
    /\ updates' = [updates EXCEPT ![r.session] =
            Append(@, [consensus |-> Round2(r.consensus), judgeCount |-> r.judgeCount])]
    /\ rateReq' = [rateReq EXCEPT ![p] = IdleRate]
    /\ UNCHANGED <<appVars, now, reply, ledger, traders, trades, judges, ended,
                   placeReq, startReq, settleReq, calc>>

\* ------------------------------------------------------ POST /judges/apply
\* the identity's judge_applications rows
AppsOf(u) == {i \in DOMAIN apps : apps[i].user = u}

\* ORDER BY created_at DESC LIMIT 1 (rows are created in id order)
LatestApp(u) == CHOOSE i \in AppsOf(u) : \A k \in AppsOf(u) : k <= i

\* app.status === 'rejected' && app.next_attempt_date
\*     && new Date(app.next_attempt_date) > new Date()
InCooldown(row) ==
    row.status = "rejected" /\ row.nextAttemptDate # Null /\ row.nextAttemptDate[1] > now

\* SELECT id, status FROM judges WHERE user_id, user_type: no row
ApplySelectJudge(p, u) ==
    /\ Lowest(applyReq, p)
    /\ applyReq[p].pc = "idle"
    /\ judges[u].status = "none"
    /\ applyReq' = [applyReq EXCEPT ![p] = [pc |-> "latest", user |-> u]]
    /\ UNCHANGED <<apps, screenReq, now, reply, dbVars, ended, updates, placeReq, startReq,
                   settleReq, rateReq, calc>>

\* 400 'You are already a judge'
ApplyReject(p, u) ==
    /\ Lowest(applyReq, p)
    /\ applyReq[p].pc = "idle"
    /\ judges[u].status # "none"
    /\ Respond(Reply("apply", 400, "You are already a judge"))
    /\ UNCHANGED <<appVars, now, dbVars, ended, updates, placeReq, startReq, settleReq,
                   rateReq, calc>>

\* the 400 of the latest application, "none" when it does not block
ApplyError(u) ==
    IF AppsOf(u) = {} THEN "none"
    ELSE IF apps[LatestApp(u)].status \in {"pending", "screening"}
         THEN "You already have a pending application"
    ELSE IF InCooldown(apps[LatestApp(u)]) THEN "Cooldown period active"
    ELSE "none"

\* the cooldown response carries next_attempt_date
ApplyReply(u) ==
    IF ApplyError(u) = "Cooldown period active"
    THEN [op |-> "apply", code |-> 400, error |-> ApplyError(u),
          nextAttemptDate |-> apps[LatestApp(u)].nextAttemptDate]
    ELSE Reply("apply", 400, ApplyError(u))

\* SELECT ... FROM judge_applications ... ORDER BY created_at DESC LIMIT 1
ApplySelectLatest(p) ==
    LET r == applyReq[p] IN
    /\ r.pc = "latest"
    /\ IF ApplyError(r.user) = "none"
       THEN /\ applyReq' = [applyReq EXCEPT ![p] = [r EXCEPT !.pc = "count"]]
            /\ UNCHANGED reply
       ELSE /\ applyReq' = [applyReq EXCEPT ![p] = IdleApply]
            /\ Respond(ApplyReply(r.user))
    /\ UNCHANGED <<apps, screenReq, now, dbVars, ended, updates, placeReq, startReq,
                   settleReq, rateReq, calc>>

\* SELECT COUNT(*) ...; attempts = cnt + 1
ApplyCount(p) ==
    LET r == applyReq[p] IN
    /\ r.pc = "count"
    /\ applyReq' = [applyReq EXCEPT ![p] =
            [pc |-> "insert", user |-> r.user, attempts |-> Cardinality(AppsOf(r.user)) + 1]]
    /\ UNCHANGED <<apps, screenReq, now, reply, dbVars, ended, updates, placeReq, startReq,
                   settleReq, rateReq, calc>>

NewApp(u, attempts) ==
    [user |-> u, status |-> "screening", attempts |-> attempts,
     screeningScore |-> Null, screeningDeviation |-> Null, nextAttemptDate |-> Null,
     reviewedAt |-> Null]

\* INSERT INTO judge_applications (..., status, attempts) VALUES (..., 'screening', $5)
ApplyInsert(p) ==
    LET r == applyReq[p] IN
    /\ r.pc = "insert"
    /\ apps' = Append(apps, NewApp(r.user, r.attempts))
    /\ applyReq' = [applyReq EXCEPT ![p] = IdleApply]
    /\ Respond(Reply("apply", 201, "none"))
    /\ UNCHANGED <<screenReq, now, dbVars, ended, updates, placeReq, startReq, settleReq,
                   rateReq, calc>>

\* ------------------------------------ GET /judges/screening/:applicationId
\* SELECT id, status FROM judge_applications ...: 404, 400 unless screening;
\* then 5 random active anchor songs, 503 when there are fewer
GetScreeningSet(a, u) ==
    /\ Respond(IF a \notin DOMAIN apps \/ apps[a].user # u
               THEN Reply("getScreeningSet", 404, "Application not found")
               ELSE IF apps[a].status # "screening"
               THEN Reply("getScreeningSet", 400, "Application is not in screening phase")
               ELSE IF Cardinality(DOMAIN AnchorSongs) < 5
               THEN Reply("getScreeningSet", 503, "Not enough anchor songs configured")
               ELSE Reply("getScreeningSet", 200, "none"))
    /\ UNCHANGED <<appVars, now, dbVars, ended, updates, placeReq, startReq, settleReq,
                   rateReq, calc>>

\* ------------------------------ POST /judges/screening/:applicationId/submit
\* the 404/400 before the scoring loop, "none" when the loop is entered
ScreenError(a, u, body) ==
    IF a \notin DOMAIN apps \/ apps[a].user # u THEN "Application not found"
    ELSE IF apps[a].status # "screening" THEN "Application is not in screening phase"
    ELSE IF body = <<>> THEN "Ratings array is required"
    ELSE "none"

\* SELECT id, status FROM judge_applications WHERE id, user_id, user_type
ScreenSelect(p, a, u, body) ==
    /\ Lowest(screenReq, p)
    /\ screenReq[p].pc = "idle"
    /\ ScreenError(a, u, body) = "none"
    /\ screenReq' = [screenReq EXCEPT ![p] =
            [pc |-> "anchor", app |-> a, user |-> u, ratings |-> body, i |-> 1,
             totalDeviation |-> 0, scored |-> 0]]
    /\ UNCHANGED <<apps, applyReq, now, reply, dbVars, ended, updates, placeReq, startReq,
                   settleReq, rateReq, calc>>

ScreenReject(p, a, u, body) ==
    /\ Lowest(screenReq, p)
    /\ screenReq[p].pc = "idle"
    /\ ScreenError(a, u, body) # "none"
    /\ Respond(Reply("submitScreening",
                     IF ScreenError(a, u, body) = "Application not found" THEN 404 ELSE 400,
                     ScreenError(a, u, body)))
    /\ UNCHANGED <<appVars, now, dbVars, ended, updates, placeReq, startReq, settleReq,
                   rateReq, calc>>

\* Math.abs(r.rating - anchor.rows[0].correct_rating)
Deviation(rating, correct) ==
    IF rating >= correct THEN rating - correct ELSE correct - rating

\* avgDeviation = totalDeviation / scored, as the fraction sum/n
AvgDeviation(total, scored) == [sum |-> total, n |-> scored]

\* score = Math.max(0, 100 - avgDeviation * 2), as a fraction over the same n
Score(dev) == [sum |-> Max2(0, 100 * dev.n - 2 * dev.sum), n |-> dev.n]

\* mutant: the score alone decides
PassedScoreOnly(dev) == Score(dev).sum >= 60 * dev.n

\* passed = score >= 60 && avgDeviation <= 15
Passed(dev) == Score(dev).sum >= 60 * dev.n /\ dev.sum <= 15 * dev.n

\* after the loop: 400 when nothing was scored, else the branch on passed
AfterLoop(total, scored) ==
    IF scored = 0 THEN "idle"
    ELSE IF Passed(AvgDeviation(total, scored)) THEN "judge" ELSE "reject"

\* one loop body: SELECT correct_rating FROM anchor_songs WHERE id; a rating
\* whose anchor does not exist is skipped
ScreenSelectAnchor(p) ==
    LET r == screenReq[p]
        x == r.ratings[r.i]
        hit == x.anchorId \in DOMAIN AnchorSongs
        total == IF hit THEN r.totalDeviation + Deviation(x.rating, AnchorSongs[x.anchorId])
                 ELSE r.totalDeviation
        scored == IF hit THEN r.scored + 1 ELSE r.scored IN
    /\ r.pc = "anchor"
    /\ IF r.i < Len(r.ratings)
       THEN /\ screenReq' = [screenReq EXCEPT ![p] =
                    [r EXCEPT !.i = r.i + 1, !.totalDeviation = total, !.scored = scored]]
            /\ UNCHANGED reply
       ELSE IF scored = 0
       THEN /\ screenReq' = [screenReq EXCEPT ![p] = IdleScreen]
            /\ Respond(Reply("submitScreening", 400, "No valid anchor songs scored"))
       ELSE /\ screenReq' = [screenReq EXCEPT ![p] =
                    [r EXCEPT !.pc = AfterLoop(total, scored), !.i = r.i + 1,
                              !.totalDeviation = total, !.scored = scored]]
            /\ UNCHANGED reply
    /\ UNCHANGED <<apps, applyReq, now, dbVars, ended, updates, placeReq, startReq,
                   settleReq, rateReq, calc>>

\* INSERT INTO judges (...) VALUES (..., 'active')
\* ON CONFLICT (user_id, user_type) DO UPDATE SET status = 'active'
UpsertJudge(row) == IF row.status = "none" THEN NewJudge ELSE [row EXCEPT !.status = "active"]

ScreenInsertJudge(p) ==
    LET r == screenReq[p] IN
    /\ r.pc = "judge"
    /\ judges' = [judges EXCEPT ![r.user] = UpsertJudge(judges[r.user])]
    /\ screenReq' = [screenReq EXCEPT ![p] = [r EXCEPT !.pc = "approve"]]
    /\ UNCHANGED <<apps, applyReq, now, reply, sessions, ledger, traders, trades, ended,
                   updates, placeReq, startReq, settleReq, rateReq, calc>>

\* the response of a scored submission
ScreenReply(passed, dev, next) ==
    [op |-> "submitScreening", code |-> 200, error |-> "none", passed |-> passed,
     score |-> Score(dev), avgDeviation |-> dev, nextAttemptDate |-> next]

\* UPDATE judge_applications SET status = 'approved', screening_score,
\*        screening_deviation, reviewed_at = NOW() WHERE id
ApproveApp(row, dev) ==
    [row EXCEPT !.status = "approved", !.screeningScore = Some(Round2(Score(dev))),
                !.screeningDeviation = Some(Round2(dev)), !.reviewedAt = Some(now)]

ScreenApprove(p) ==
    LET r == screenReq[p]
        dev == AvgDeviation(r.totalDeviation, r.scored) IN
    /\ r.pc = "approve"
    /\ apps' = [apps EXCEPT ![r.app] = ApproveApp(apps[r.app], dev)]
    /\ screenReq' = [screenReq EXCEPT ![p] = IdleScreen]
    /\ Respond(ScreenReply(TRUE, dev, Null))
    /\ UNCHANGED <<applyReq, now, dbVars, ended, updates, placeReq, startReq, settleReq,
                   rateReq, calc>>

\* 7 * 24 * 60 * 60 * 1000 ms, in days
Cooldown == 7

\* new Date(Date.now() + 7 * 24 * 60 * 60 * 1000)
NextAttempt == now + Cooldown

\* UPDATE judge_applications SET status = 'rejected', screening_score,
\*        screening_deviation, next_attempt_date, reviewed_at = NOW() WHERE id
RejectApp(row, dev) ==
    [row EXCEPT !.status = "rejected", !.screeningScore = Some(Round2(Score(dev))),
                !.screeningDeviation = Some(Round2(dev)),
                !.nextAttemptDate = Some(NextAttempt), !.reviewedAt = Some(now)]

\* NUMERIC(5,2) holds an absolute value below 1000: a larger one makes the
\* statement fail with "numeric field overflow"
Overflows(dev) == Round2(dev) >= 100000

ScreenRejectApp(p) ==
    LET r == screenReq[p]
        dev == AvgDeviation(r.totalDeviation, r.scored) IN
    /\ r.pc = "reject"
    /\ IF Overflows(dev)
       THEN /\ Respond(Reply("submitScreening", 500, "Failed to process screening"))
            /\ UNCHANGED apps
       ELSE /\ apps' = [apps EXCEPT ![r.app] = RejectApp(apps[r.app], dev)]
            /\ Respond(ScreenReply(FALSE, dev, Some(NextAttempt)))
    /\ screenReq' = [screenReq EXCEPT ![p] = IdleScreen]
    /\ UNCHANGED <<applyReq, now, dbVars, ended, updates, placeReq, startReq, settleReq,
                   rateReq, calc>>

\* ---------------------------------------------------------- specification
\* steps of handlers already in flight
Continue ==
    \/ \E p \in StartReqs : StartUpdate(p)
    \/ \E p \in PlaceReqs : PlaceSelectTrader(p)
    \/ \E p \in PlaceReqs : PlaceCreateTrader(p)
    \/ \E p \in PlaceReqs : PlaceSelectExisting(p)
    \/ \E p \in PlaceReqs : PlaceSelectConsensus(p)
    \/ \E p \in PlaceReqs : PlaceDebit(p)
    \/ \E p \in PlaceReqs : PlaceInsert(p)
    \/ \E p \in PlaceReqs : PlaceInsertFails(p)
    \/ \E p \in SettleReqs : SettleSelectConsensus(p)
    \/ \E p \in SettleReqs : SettleComplete(p)
    \/ \E p \in SettleReqs : SettleSelectTrades(p)
    \/ \E p \in SettleReqs : SettleUpdateTrade(p)
    \/ \E p \in SettleReqs : SettleUpdateTrader(p)
    \/ \E p \in SettleReqs : SettleSelectJudges(p)
    \/ \E p \in SettleReqs : SettleUpdateJudge(p)
    \/ \E p \in SettleReqs : SettleEmit(p)
    \/ \E p \in RateReqs : RateInsert(p)
    \/ \E p \in RateReqs : RateSelectConsensus(p)
    \/ \E p \in RateReqs : RateUpdateCount(p)

\* the engine from the empty store: MainSessions sessions are created and
\* MainJudges judges rate
Next ==
    \/ \E s \in 1..MainSessions : CreateSession(s)
    \/ \E p \in StartReqs, s \in Sessions, w \in Windows :
          Admit(MaxInFlight) /\ StartSelect(p, s, w)
    \/ \E p \in StartReqs, s \in Sessions : StartReject(p, s)
    \/ \E p \in PlaceReqs, u \in Users, s \in Sessions, d \in Directions, a \in Amounts :
          Admit(MaxInFlight) /\ TradeBudget(MaxTrades) /\ PlaceSelectSession(p, u, s, d, a)
    \/ \E p \in PlaceReqs, u \in Users, s \in Sessions, d \in Directions, a \in Amounts :
          PlaceReject(p, u, s, d, a)
    \/ \E p \in SettleReqs, s \in Sessions : Admit(MaxInFlight) /\ SettleSelect(p, s)
    \/ \E p \in SettleReqs, s \in Sessions : SettleReject(p, s)
    \/ \E p \in RateReqs, j \in 1..MainJudges, s \in Sessions, r \in RatingInputs :
          Admit(MaxInFlight) /\ RatingBudget(MaxSnapshots) /\ RateSelect(p, j, s, r)
    \/ \E p \in RateReqs, j \in 1..MainJudges, s \in Sessions : RateDrop(p, j, s)
    \/ Continue

Spec == Init /\ [][Next]_vars

\* the engine from the empty store when statements of a settlement may fail
NextFailing ==
    \/ Next
    \/ \E p \in SettleReqs : SettleFails(p)

SpecFailing == Init /\ [][NextFailing]_vars

\* the trading engine alone, on every session: sessions are created and
\* started and trades are placed; nothing is rated or settled and no
\* statement of the store fails
NextTrading ==
    \/ \E s \in Sessions : CreateSession(s)
    \/ \E p \in StartReqs, s \in Sessions, w \in Windows :
          Admit(MaxInFlight) /\ StartSelect(p, s, w)
    \/ \E p \in StartReqs, s \in Sessions : StartReject(p, s)
    \/ \E p \in StartReqs : StartUpdate(p)
    \/ \E p \in PlaceReqs, u \in Users, s \in Sessions, d \in Directions, a \in Amounts :
          Admit(MaxInFlight) /\ TradeBudget(TradingTrades)
          /\ PlaceSelectSession(p, u, s, d, a)
    \/ \E p \in PlaceReqs, u \in Users, s \in Sessions, d \in Directions, a \in Amounts :
          PlaceReject(p, u, s, d, a)
    \/ \E p \in PlaceReqs : PlaceSelectTrader(p)
    \/ \E p \in PlaceReqs : PlaceCreateTrader(p)
    \/ \E p \in PlaceReqs : PlaceSelectExisting(p)
    \/ \E p \in PlaceReqs : PlaceSelectConsensus(p)
    \/ \E p \in PlaceReqs : PlaceDebit(p)
    \/ \E p \in PlaceReqs : PlaceInsert(p)

SpecTrading == Init /\ [][NextTrading]_vars

\* --------------------------------------------- the computations on their own
\* resolution inputs: finals around 0 and around 50 from 1..MaxCalcJudges
\* judges, stored entries around 0.50 and around 50.00, whole-cent amounts
CalcFinals ==
    {[sum |-> k, n |-> n] : n \in 1..MaxCalcJudges, k \in 0..MaxCalcJudges}
    \cup {[sum |-> 50 * n + k, n |-> n] : n \in 1..MaxCalcJudges, k \in (0 - 3)..3}

CalcEntries == {0, 20, 33, 50, 70, 4950, 4960, 4967, 5000, 5033, 5040, 5050}

CalcAmounts == {1, 1000, 5000}

\* ledgers of session 1 with snapshots in any timestamp order
CalcSnapshots ==
    [sessionId : {1}, judgeId : JudgeIds, rating : {0, 70}, timestamp : 1..MaxCalcTime]

RECURSIVE SeqsUpTo(_, _)
SeqsUpTo(S, n) ==
    IF n = 0 THEN {<<>>}
    ELSE SeqsUpTo(S, n - 1)
         \cup {Append(q, x) : q \in {r \in SeqsUpTo(S, n - 1) : Len(r) = n - 1}, x \in S}

InitCalc ==
    /\ sessions = [s \in Sessions |-> NoSession]
    /\ ledger = <<>>
    /\ traders = [u \in Users |-> NoTrader]
    /\ trades = <<>>
    /\ judges = [j \in JudgeIds |-> NewJudge]
    /\ ended = [s \in Sessions |-> <<>>]
    /\ updates = [s \in Sessions |-> <<>>]
    /\ placeReq = [p \in PlaceReqs |-> IdlePlace]
    /\ startReq = [p \in StartReqs |-> IdleStart]
    /\ settleReq = [p \in SettleReqs |-> IdleSettle]
    /\ rateReq = [p \in RateReqs |-> IdleRate]
    /\ \/ \E d \in Directions, fc \in CalcFinals, e \in CalcEntries, a \in CalcAmounts :
             calc = [op |-> "resolve", direction |-> d, finalConsensus |-> fc,
                     entry |-> e, amount |-> a]
       \/ \E led \in SeqsUpTo(CalcSnapshots, MaxCalcSnapshots) :
             calc = [op |-> "ledger", led |-> led]
    /\ apps = <<>>
    /\ applyReq = [p \in ApplyReqs |-> IdleApply]
    /\ screenReq = [p \in ScreenReqs |-> IdleScreen]
    /\ now = 0
    /\ reply = Unobserved

CalcFrame ==
    UNCHANGED <<appVars, now, reply, dbVars, ended, updates, placeReq, startReq, settleReq, rateReq>>

\* the if/else chain of the settlement loop on one trade
CalcResolve ==
    /\ calc.op = "resolve"
    /\ calc' = [op |-> "resolved", direction |-> calc.direction,
                finalConsensus |-> calc.finalConsensus, entry |-> calc.entry,
                amount |-> calc.amount,
                outcome |-> Outcome(calc.direction, calc.finalConsensus, calc.entry),
                payout |-> Payout(Outcome(calc.direction, calc.finalConsensus, calc.entry),
                                  calc.amount)]
    /\ CalcFrame

\* the consensus query on a ledger
CalcConsensus ==
    /\ calc.op = "ledger"
    /\ \E avg \in ConsensusQuery(calc.led, 1) :
          calc' = [op |-> "consensus", led |-> calc.led, avg |-> avg]
    /\ CalcFrame

\* the query before and after a snapshot older than the judge's newest is added
CalcAddOlder ==
    /\ calc.op = "consensus"
    /\ \E x \in CalcSnapshots :
          /\ \E i \in JudgeRows(calc.led, 1, x.judgeId) :
                calc.led[i].timestamp > x.timestamp
          /\ calc' = [op |-> "older", led |-> calc.led, added |-> x,
                      before |-> ConsensusQuery(calc.led, 1),
                      after |-> ConsensusQuery(Append(calc.led, x), 1)]
    /\ CalcFrame

NextCalc == CalcResolve \/ CalcConsensus \/ CalcAddOlder

SpecCalc == InitCalc /\ [][NextCalc]_vars

\* ------------------------------------------ the engine on a session in use
\* A live session with up to MaxDrawnSnapshots snapshots already in its ledger
\* (timestamps in insertion order), a trader with a history on earlier sessions
\* (whose rows no statement on this session reads), and possibly that trader's
\* pending trade, entered at the consensus of an earlier ledger. Trades are
\* placed and the session is settled, one request at a time.
DrawnRatings == {0, 1}

DrawnLedgers ==
    {[i \in 1..Len(q) |->
        [sessionId |-> 1, judgeId |-> q[i][1], rating |-> q[i][2], timestamp |-> i]] :
     q \in SeqsUpTo(JudgeIds \X DrawnRatings, MaxDrawnSnapshots)}

\* trader rows after: no trade; one loss of 50; two wins then a loss of 50; a win of 50
DrawnTraders ==
    {NewTrader,
     [NewTrader EXCEPT !.balance = 5000, !.totalTrades = 1, !.losingTrades = 1,
                       !.totalProfitLoss = 0 - 5000],
     [NewTrader EXCEPT !.balance = 13000, !.totalTrades = 3, !.winningTrades = 2,
                       !.losingTrades = 1, !.totalProfitLoss = 3000,
                       !.bestStreak = 2],
     [NewTrader EXCEPT !.balance = 14000, !.totalTrades = 1, !.winningTrades = 1,
                       !.totalProfitLoss = 4000, !.currentStreak = 1,
                       !.bestStreak = 1]}

DrawnAmounts == {1, 1000}

Prefix(led, k) == [i \in 1..k |-> led[i]]

InitDrawn ==
    /\ \E led \in DrawnLedgers :
          /\ ledger = led
          /\ sessions = [s \in Sessions |->
                IF s = 1 THEN [NoSession EXCEPT
                                   !.status = "live", !.actualStart = Some(0),
                                   !.judgeCount = Cardinality(Contributors(led, 1))]
                ELSE NoSession]
          /\ \/ /\ trades = <<>>
                /\ traders \in [Users -> DrawnTraders \cup {NoTrader}]
             \/ \E k \in 0..Len(led), base \in DrawnTraders, d \in Directions,
                   a \in DrawnAmounts :
                   \E avg \in ConsensusQuery(Prefix(led, k), 1) :
                      /\ base.balance >= a
                      /\ traders = [u \in Users |->
                            IF u = 1 THEN DebitTrader(base, a) ELSE NoTrader]
                      /\ trades = <<NewTrade([session |-> 1, user |-> 1, direction |-> d,
                                              amount |-> a, entry |-> EntrySentiment(avg)])>>
    /\ judges = [j \in JudgeIds |-> NewJudge]
    /\ ended = [s \in Sessions |-> <<>>]
    /\ updates = [s \in Sessions |-> <<>>]
    /\ placeReq = [p \in PlaceReqs |-> IdlePlace]
    /\ startReq = [p \in StartReqs |-> IdleStart]
    /\ settleReq = [p \in SettleReqs |-> IdleSettle]
    /\ rateReq = [p \in RateReqs |-> IdleRate]
    /\ calc = [op |-> "none"]
    /\ apps = <<>>
    /\ applyReq = [p \in ApplyReqs |-> IdleApply]
    /\ screenReq = [p \in ScreenReqs |-> IdleScreen]
    /\ now = 0
    /\ reply = Unobserved

NextDrawn ==
    \/ \E p \in PlaceReqs, u \in Users, s \in Sessions, d \in Directions, a \in Amounts :
          Admit(DrawnInFlight) /\ TradeBudget(DrawnTrades) /\ PlaceSelectSession(p, u, s, d, a)
    \/ \E p \in PlaceReqs, u \in Users, s \in Sessions, d \in Directions, a \in Amounts :
          PlaceReject(p, u, s, d, a)
    \/ \E p \in SettleReqs, s \in Sessions : Admit(DrawnInFlight) /\ SettleSelect(p, s)
    \/ \E p \in SettleReqs, s \in Sessions : SettleReject(p, s)
    \/ \E p \in PlaceReqs : PlaceSelectTrader(p)
    \/ \E p \in PlaceReqs : PlaceCreateTrader(p)
    \/ \E p \in PlaceReqs : PlaceSelectExisting(p)
    \/ \E p \in PlaceReqs : PlaceSelectConsensus(p)
    \/ \E p \in PlaceReqs : PlaceDebit(p)
    \/ \E p \in PlaceReqs : PlaceInsert(p)
    \/ \E p \in PlaceReqs : PlaceInsertFails(p)
    \/ \E p \in SettleReqs : SettleSelectConsensus(p)
    \/ \E p \in SettleReqs : SettleComplete(p)
    \/ \E p \in SettleReqs : SettleSelectTrades(p)
    \/ \E p \in SettleReqs : SettleUpdateTrade(p)
    \/ \E p \in SettleReqs : SettleUpdateTrader(p)
    \/ \E p \in SettleReqs : SettleSelectJudges(p)
    \/ \E p \in SettleReqs : SettleUpdateJudge(p)
    \/ \E p \in SettleReqs : SettleEmit(p)

SpecDrawn == InitDrawn /\ [][NextDrawn]_vars

\* ------------------------------------- admission of starts and of trades
\* One session is created, started by up to NumStartReq concurrent requests
\* with or without a trading window (in ticks of the clock), traded on with
\* well-formed and malformed bodies, and settled, while the clock advances.
\* Nobody rates; the response of every request is observed.
AdmissionWindows == {0, 1}
\* "" is an absent direction, 0 an absent (or zero) amount
AdmissionDirections == {"over", "sideways", ""}
AdmissionAmounts == {0 - 100, 0, 5000, 5001}

InitAdmission ==
    /\ sessions = [s \in Sessions |-> NoSession]
    /\ ledger = <<>>
    /\ traders = [u \in Users |-> NoTrader]
    /\ trades = <<>>
    /\ judges = [j \in JudgeIds |-> NewJudge]
    /\ ended = [s \in Sessions |-> <<>>]
    /\ updates = [s \in Sessions |-> <<>>]
    /\ placeReq = [p \in PlaceReqs |-> IdlePlace]
    /\ startReq = [p \in StartReqs |-> IdleStart]
    /\ settleReq = [p \in SettleReqs |-> IdleSettle]
    /\ rateReq = [p \in RateReqs |-> IdleRate]
    /\ calc = [op |-> "none"]
    /\ apps = <<>>
    /\ applyReq = [p \in ApplyReqs |-> IdleApply]
    /\ screenReq = [p \in ScreenReqs |-> IdleScreen]
    /\ now = 0
    /\ reply = NoReply

NextAdmission ==
    \/ Tick(MaxNow)
    \/ \E s \in 1..MainSessions : CreateSession(s)
    \/ \E p \in StartReqs, s \in 1..MainSessions, w \in AdmissionWindows :
          Admit(AdmissionInFlight) /\ StartSelect(p, s, w)
    \/ \E p \in StartReqs, s \in 1..MainSessions : StartReject(p, s)
    \/ \E p \in StartReqs : StartUpdate(p)
    \/ \E p \in PlaceReqs, u \in Users, s \in 1..MainSessions,
          d \in AdmissionDirections, a \in AdmissionAmounts :
          Admit(AdmissionInFlight) /\ TradeBudget(AdmissionTrades)
          /\ PlaceSelectSession(p, u, s, d, a)
    \/ \E p \in PlaceReqs, u \in Users, s \in 1..MainSessions,
          d \in AdmissionDirections, a \in AdmissionAmounts :
          PlaceReject(p, u, s, d, a)
    \/ \E p \in PlaceReqs : PlaceSelectTrader(p)
    \/ \E p \in PlaceReqs : PlaceCreateTrader(p)
    \/ \E p \in PlaceReqs : PlaceSelectExisting(p)
    \/ \E p \in PlaceReqs : PlaceSelectConsensus(p)
    \/ \E p \in PlaceReqs : PlaceDebit(p)
    \/ \E p \in PlaceReqs : PlaceInsert(p)
    \/ \E p \in SettleReqs, s \in 1..MainSessions :
          Admit(AdmissionInFlight) /\ SettleSelect(p, s)
    \/ \E p \in SettleReqs, s \in 1..MainSessions : SettleReject(p, s)
    \/ \E p \in SettleReqs : SettleSelectConsensus(p)
    \/ \E p \in SettleReqs : SettleComplete(p)
    \/ \E p \in SettleReqs : SettleSelectTrades(p)
    \/ \E p \in SettleReqs : SettleUpdateTrade(p)
    \/ \E p \in SettleReqs : SettleUpdateTrader(p)
    \/ \E p \in SettleReqs : SettleSelectJudges(p)
    \/ \E p \in SettleReqs : SettleEmit(p)

SpecAdmission == InitAdmission /\ [][NextAdmission]_vars

\* ------------------------------------------------- rating a live session
\* A live session with an empty ledger; RatingJudges active judges send
\* ratings from below 0 to above 100 (in tenths), and the session is settled
\* meanwhile. Nobody trades.
RatingValues == {0 - 15, 0 - 5, 0 - 4, 4, 5, 494, 495, 995, 1004, 1005, 2000}

InitRating ==
    /\ sessions = [s \in Sessions |->
            IF s = 1 THEN [NoSession EXCEPT !.status = "live", !.actualStart = Some(0)]
            ELSE NoSession]
    /\ ledger = <<>>
    /\ traders = [u \in Users |-> NoTrader]
    /\ trades = <<>>
    /\ judges = [j \in JudgeIds |-> NewJudge]
    /\ ended = [s \in Sessions |-> <<>>]
    /\ updates = [s \in Sessions |-> <<>>]
    /\ placeReq = [p \in PlaceReqs |-> IdlePlace]
    /\ startReq = [p \in StartReqs |-> IdleStart]
    /\ settleReq = [p \in SettleReqs |-> IdleSettle]
    /\ rateReq = [p \in RateReqs |-> IdleRate]
    /\ calc = [op |-> "none"]
    /\ apps = <<>>
    /\ applyReq = [p \in ApplyReqs |-> IdleApply]
    /\ screenReq = [p \in ScreenReqs |-> IdleScreen]
    /\ now = 0
    /\ reply = Unobserved

NextRating ==
    \/ \E p \in RateReqs, j \in 1..RatingJudges, s \in Sessions, r \in RatingValues :
          Admit(RatingInFlight) /\ RatingBudget(RatingSnapshots) /\ RateSelect(p, j, s, r)
    \/ \E p \in RateReqs, j \in 1..RatingJudges, s \in Sessions : RateDrop(p, j, s)
    \/ \E p \in RateReqs : RateInsert(p)
    \/ \E p \in RateReqs : RateSelectConsensus(p)
    \/ \E p \in RateReqs : RateUpdateCount(p)
    \/ \E p \in SettleReqs, s \in Sessions : Admit(RatingInFlight) /\ SettleSelect(p, s)
    \/ \E p \in SettleReqs, s \in Sessions : SettleReject(p, s)
    \/ \E p \in SettleReqs : SettleSelectConsensus(p)
    \/ \E p \in SettleReqs : SettleComplete(p)
    \/ \E p \in SettleReqs : SettleSelectTrades(p)
    \/ \E p \in SettleReqs : SettleSelectJudges(p)
    \/ \E p \in SettleReqs : SettleUpdateJudge(p)
    \/ \E p \in SettleReqs : SettleEmit(p)

SpecRating == InitRating /\ [][NextRating]_vars

\* the engine on a session that is live from the outset (InitRating): trades
\* are placed, MainJudges judges rate and the session is settled, with up to
\* MaxInFlight requests at a time; nobody starts a session
NextLive ==
    \/ \E p \in PlaceReqs, u \in Users, s \in Sessions, d \in Directions, a \in Amounts :
          Admit(MaxInFlight) /\ TradeBudget(MaxTrades) /\ PlaceSelectSession(p, u, s, d, a)
    \/ \E p \in PlaceReqs, u \in Users, s \in Sessions, d \in Directions, a \in Amounts :
          PlaceReject(p, u, s, d, a)
    \/ \E p \in SettleReqs, s \in Sessions : Admit(MaxInFlight) /\ SettleSelect(p, s)
    \/ \E p \in SettleReqs, s \in Sessions : SettleReject(p, s)
    \/ \E p \in RateReqs, j \in 1..MainJudges, s \in Sessions, r \in RatingInputs :
          Admit(MaxInFlight) /\ RatingBudget(MaxSnapshots) /\ RateSelect(p, j, s, r)
    \/ \E p \in RateReqs, j \in 1..MainJudges, s \in Sessions : RateDrop(p, j, s)
    \/ \E p \in PlaceReqs : PlaceSelectTrader(p)
    \/ \E p \in PlaceReqs : PlaceCreateTrader(p)
    \/ \E p \in PlaceReqs : PlaceSelectExisting(p)
    \/ \E p \in PlaceReqs : PlaceSelectConsensus(p)
    \/ \E p \in PlaceReqs : PlaceDebit(p)
    \/ \E p \in PlaceReqs : PlaceInsert(p)
    \/ \E p \in SettleReqs : SettleSelectConsensus(p)
    \/ \E p \in SettleReqs : SettleComplete(p)
    \/ \E p \in SettleReqs : SettleSelectTrades(p)
    \/ \E p \in SettleReqs : SettleUpdateTrade(p)
    \/ \E p \in SettleReqs : SettleUpdateTrader(p)
    \/ \E p \in SettleReqs : SettleSelectJudges(p)
    \/ \E p \in SettleReqs : SettleUpdateJudge(p)
    \/ \E p \in SettleReqs : SettleEmit(p)
    \/ \E p \in RateReqs : RateInsert(p)
    \/ \E p \in RateReqs : RateSelectConsensus(p)
    \/ \E p \in RateReqs : RateUpdateCount(p)

SpecLive == InitRating /\ [][NextLive]_vars

\* ---------------------------------------------- becoming a judge
\* NumApplicants identities without a judges row apply, take the screening
\* test against the anchor songs and apply again, with up to JudgesInFlight
\* requests at a time, on the days JudgesDays (the clock counts days, and a
\* request is handled within the day). A test body rates the anchor (id 1,
\* correct rating 50) with 50, 30 or 1100.
Applicants == 1..NumApplicants

JudgesBodies == {<<a>> : a \in [anchorId : {1}, rating : {50, 30, 1100}]}

JudgesDays == {0, 6, 7}

InitJudges ==
    /\ sessions = [s \in Sessions |-> NoSession]
    /\ ledger = <<>>
    /\ traders = [u \in Users |-> NoTrader]
    /\ trades = <<>>
    /\ judges = [j \in JudgeIds |-> NoJudge]
    /\ ended = [s \in Sessions |-> <<>>]
    /\ updates = [s \in Sessions |-> <<>>]
    /\ placeReq = [p \in PlaceReqs |-> IdlePlace]
    /\ startReq = [p \in StartReqs |-> IdleStart]
    /\ settleReq = [p \in SettleReqs |-> IdleSettle]
    /\ rateReq = [p \in RateReqs |-> IdleRate]
    /\ calc = [op |-> "none"]
    /\ apps = <<>>
    /\ applyReq = [p \in ApplyReqs |-> IdleApply]
    /\ screenReq = [p \in ScreenReqs |-> IdleScreen]
    /\ now = 0
    /\ reply = NoReply

AppBudget(k) ==
    Len(apps) + Cardinality({p \in ApplyReqs : applyReq[p].pc # "idle"}) < k

NextJudges ==
    \/ InFlight = 0 /\ Advance(JudgesDays)
    \/ \E p \in ApplyReqs, u \in Applicants :
          Admit(JudgesInFlight) /\ AppBudget(MaxApps) /\ ApplySelectJudge(p, u)
    \/ \E p \in ApplyReqs, u \in Applicants : ApplyReject(p, u)
    \/ \E p \in ApplyReqs : ApplySelectLatest(p)
    \/ \E p \in ApplyReqs : ApplyCount(p)
    \/ \E p \in ApplyReqs : ApplyInsert(p)
    \/ \E p \in ScreenReqs, a \in 1..MaxApps, u \in Applicants, body \in JudgesBodies :
          Admit(JudgesInFlight) /\ ScreenSelect(p, a, u, body)
    \/ \E p \in ScreenReqs, a \in 1..MaxApps, u \in Applicants, body \in JudgesBodies :
          ScreenReject(p, a, u, body)
    \/ \E p \in ScreenReqs : ScreenSelectAnchor(p)
    \/ \E p \in ScreenReqs : ScreenInsertJudge(p)
    \/ \E p \in ScreenReqs : ScreenApprove(p)
    \/ \E p \in ScreenReqs : ScreenRejectApp(p)
    \/ \E a \in 1..MaxApps, u \in Applicants : GetScreeningSet(a, u)

SpecJudges == InitJudges /\ [][NextJudges]_vars

\* ---------------------------------------------- the screening test alone
\* One identity applies and submits screening tests, one request at a time. A
\* test body rates up to MaxRatings songs: the anchor (id 1, correct rating 50)
\* or a song that is no anchor.
ScreenAnswers ==
    [anchorId : {1}, rating : {50, 35, 30, 1100}]
    \cup [anchorId : {NumAnchors + 1}, rating : {50}]

ScreenBodies == SeqsUpTo(ScreenAnswers, MaxRatings)

NextScreening ==
    \/ \E p \in ApplyReqs, u \in Applicants :
          Admit(1) /\ AppBudget(1) /\ ApplySelectJudge(p, u)
    \/ \E p \in ApplyReqs, u \in Applicants : ApplyReject(p, u)
    \/ \E p \in ApplyReqs : ApplySelectLatest(p)
    \/ \E p \in ApplyReqs : ApplyCount(p)
    \/ \E p \in ApplyReqs : ApplyInsert(p)
    \/ \E p \in ScreenReqs, a \in 1..MaxApps, u \in Applicants, body \in ScreenBodies :
          Admit(1) /\ ScreenSelect(p, a, u, body)
    \/ \E p \in ScreenReqs, a \in 1..MaxApps, u \in Applicants, body \in ScreenBodies :
          ScreenReject(p, a, u, body)
    \/ \E p \in ScreenReqs : ScreenSelectAnchor(p)
    \/ \E p \in ScreenReqs : ScreenInsertJudge(p)
    \/ \E p \in ScreenReqs : ScreenApprove(p)
    \/ \E p \in ScreenReqs : ScreenRejectApp(p)

SpecScreening == InitJudges /\ [][NextScreening]_vars

\* ------------------------------------------------------------------ claims
\* C1: a session's status changes only scheduled -> live and live -> completed
\* (after its creation as scheduled); completed is final.
C1_Lifecycle ==
    [][\A s \in Sessions :
          sessions'[s].status # sessions[s].status =>
              <<sessions[s].status, sessions'[s].status>> \in
                  {<<"none", "scheduled">>, <<"scheduled", "live">>,
                   <<"live", "completed">>}]_vars

\* C2: no session is settled twice: at most one settleSession call per session
\* runs the settlement through to its session-ended broadcast.
C2_SettledOnce == \A s \in Sessions : Len(ended[s]) <= 1

\* C3: at most one pending trade per (session, user).
C3_OnePending ==
    \A s \in Sessions, u \in Users : Cardinality(PendingOf(s, u)) <= 1

\* C4: debit and trade row are one unit of work: whenever no placeTrade of a
\* user stands between its debit and its insert, every debit of the user
\* (counted by totalTrades) has its trade row.
C4_DebitHasTrade ==
    \A u \in Users :
        (/\ traders[u].exists
         /\ \A p \in PlaceReqs : placeReq[p].pc = "insert" => placeReq[p].user # u)
        => traders[u].totalTrades
             = Cardinality({i \in DOMAIN trades : trades[i].userId = u})

\* C5: a trader's balance is never negative.
C5_BalanceNonNegative ==
    \A u \in Users : traders[u].exists => traders[u].balance >= 0

\* C6: settlement precedence: push iff |final - entry| < 0.5 (payout = amount),
\* else win iff the direction is right (payout = 1.8 x amount), else loss
\* (payout 0); a difference of exactly 0.5 is no push.
Abs(x) == IF x >= 0 THEN x ELSE 0 - x

C6_Near == 2 * Abs(100 * calc.finalConsensus.sum - calc.entry * calc.finalConsensus.n)
               < 100 * calc.finalConsensus.n

C6_Right ==
    \/ calc.direction = "over"
       /\ 100 * calc.finalConsensus.sum > calc.entry * calc.finalConsensus.n
    \/ calc.direction = "under"
       /\ 100 * calc.finalConsensus.sum < calc.entry * calc.finalConsensus.n

C6_Precedence ==
    calc.op = "resolved" =>
        /\ calc.outcome = (IF C6_Near THEN "push" ELSE IF C6_Right THEN "win" ELSE "loss")
        /\ calc.outcome = "push" => calc.payout = 10 * calc.amount
        /\ calc.outcome = "win" => 10 * calc.payout = 18 * (10 * calc.amount)
        /\ calc.outcome = "loss" => calc.payout = 0

\* C8: the consensus is the mean of the most recent snapshot of each distinct
\* judge, judgeCount the number of distinct judges; adding an older snapshot
\* for a judge who has a newer one does not change it.
C8_Judges(led) == {led[i].judgeId : i \in DOMAIN led}

C8_Newest(led, j) ==
    CHOOSE m \in {led[i].timestamp : i \in {k \in DOMAIN led : led[k].judgeId = j}} :
        \A i \in DOMAIN led : led[i].judgeId = j => led[i].timestamp <= m

\* the most recent snapshots of a judge (several when timestamps are equal)
C8_MostRecent(led, j) ==
    {i \in DOMAIN led : led[i].judgeId = j /\ led[i].timestamp = C8_Newest(led, j)}

RECURSIVE C8_Sum(_, _, _)
C8_Sum(led, g, js) ==
    IF js = {} THEN 0
    ELSE LET j == CHOOSE x \in js : TRUE IN led[g[j]].rating + C8_Sum(led, g, js \ {j})

\* the sums of one most recent rating per judge
C8_Sums(led) ==
    {C8_Sum(led, g, C8_Judges(led)) :
        g \in {h \in [C8_Judges(led) -> DOMAIN led] :
                  \A j \in C8_Judges(led) : h[j] \in C8_MostRecent(led, j)}}

C8_MeanOfLatest ==
    /\ calc.op = "consensus" =>
          /\ calc.avg.n = Cardinality(C8_Judges(calc.led))
          /\ calc.avg.sum \in C8_Sums(calc.led)
    /\ calc.op = "older" => calc.after = calc.before

\* C8 witness: two judges, one of them with two snapshots stored newest first,
\* and a third, older snapshot added
C8_Witness ==
    /\ calc.op = "older"
    /\ Cardinality(C8_Judges(calc.led)) = 2
    /\ calc.added.rating = 70
    /\ calc.before = {[sum |-> 70, n |-> 2]}
    /\ \E i, k \in DOMAIN calc.led :
          /\ i < k
          /\ calc.led[i].judgeId = calc.led[k].judgeId
          /\ calc.led[i].timestamp > calc.led[k].timestamp

\* rows of one session, in insertion order
SessionLedger(s) == SelectSeq(ledger, LAMBDA r : r.sessionId = s)

\* v (hundredths) is the fraction avg rounded to two decimals
IsRounded2(v, avg) == 2 * Abs(100 * avg.sum - v * avg.n) <= avg.n

\* v (hundredths) is the fraction avg exactly
IsExact2(v, avg) == 100 * avg.sum = v * avg.n

\* C7: the trader row after a resolved trade: win: balance += payout,
\* winningTrades += 1, currentStreak += 1, bestStreak = max(bestStreak, new
\* currentStreak), totalProfitLoss += payout - amount; loss: losingTrades += 1,
\* currentStreak = 0, totalProfitLoss -= amount; push: balance += amount only.
\* (payout is the payout stored with the trade.)
C7_Expected(row, t) ==
    IF t.outcome = "win" THEN
        [row EXCEPT !.balance = row.balance + t.payout[1],
                    !.winningTrades = row.winningTrades + 1,
                    !.currentStreak = row.currentStreak + 1,
                    !.bestStreak = IF row.bestStreak > row.currentStreak + 1
                                   THEN row.bestStreak ELSE row.currentStreak + 1,
                    !.totalProfitLoss = row.totalProfitLoss + t.payout[1] - t.amount]
    ELSE IF t.outcome = "loss" THEN
        [row EXCEPT !.losingTrades = row.losingTrades + 1,
                    !.currentStreak = 0,
                    !.totalProfitLoss = row.totalProfitLoss - t.amount]
    ELSE [row EXCEPT !.balance = row.balance + t.amount]

C7_TraderUpdate ==
    [][\A p \in SettleReqs :
          (settleReq[p].pc = "trader" /\ settleReq'[p].pc # "trader") =>
              LET t == trades[Head(settleReq[p].rows)] IN
              /\ traders'[t.userId] = C7_Expected(traders[t.userId], t)
              /\ \A u \in Users \ {t.userId} : traders'[u] = traders[u]]_vars

\* C7 witness: a win after two wins and a loss: the streak restarts at 1 and
\* the best streak stays 2
C7_Witness ==
    /\ traders[1].exists
    /\ traders[1].winningTrades = 3
    /\ traders[1].losingTrades = 1
    /\ traders[1].currentStreak = 1
    /\ traders[1].bestStreak = 2
    /\ \E i \in DOMAIN trades : trades[i].outcome = "win"

\* C9 (as amended): settleSession reads the consensus of the ledger (0 and
\* judgeCount 0 when it is empty) and stores status completed, that consensus
\* rounded to two decimals and that judgeCount; a trade entered at the default
\* 50 then resolves against 0 by direction (under wins, over loses).
C9_Read(p) ==
    (settleReq[p].pc = "consensus" /\ settleReq'[p].pc = "complete") =>
        LET led == SessionLedger(settleReq[p].session)
            fc == settleReq'[p].finalConsensus IN
        /\ settleReq'[p].judgeCount = Cardinality(C8_Judges(led))
        /\ led = <<>> => fc.sum = 0
        /\ led # <<>> => \E s \in C8_Sums(led) :
                            fc.sum * Cardinality(C8_Judges(led)) = s * fc.n

C9_Store(p, exact) ==
    (settleReq[p].pc = "complete" /\ settleReq'[p].pc = "trades") =>
        LET row == sessions'[settleReq[p].session] IN
        /\ row.status = "completed"
        /\ row.judgeCount = settleReq[p].judgeCount
        /\ Len(row.finalConsensus) = 1
        /\ IF exact THEN IsExact2(row.finalConsensus[1], settleReq[p].finalConsensus)
           ELSE IsRounded2(row.finalConsensus[1], settleReq[p].finalConsensus)

C9_Default(p) ==
    (settleReq[p].pc = "trade" /\ settleReq'[p].pc = "trader") =>
        LET id == Head(settleReq[p].rows) IN
        (settleReq[p].judgeCount = 0 /\ trades[id].entrySentiment = 5000) =>
            /\ trades'[id].finalSentiment = <<0>>
            /\ trades'[id].outcome = (IF trades[id].direction = "under" THEN "win" ELSE "loss")

C9_StoresRounded ==
    [][\A p \in SettleReqs : C9_Read(p) /\ C9_Store(p, FALSE) /\ C9_Default(p)]_vars

\* C9 as claimed: the stored finalConsensus equals the consensus
C9_StoresExact ==
    [][\A p \in SettleReqs : C9_Read(p) /\ C9_Store(p, TRUE) /\ C9_Default(p)]_vars

\* C9 witness: three judges with latest ratings 0, 0, 1 settled as 0.33
C9_Witness ==
    /\ sessions[1].status = "completed"
    /\ sessions[1].finalConsensus = <<33>>
    /\ sessions[1].judgeCount = 3

\* C10 (as amended): a trade is entered at the consensus read by placeTrade,
\* rounded to two decimals, and at 50 when no judge has rated the session; a
\* consensus of 0 is entered as 0.
C10_Read(p) ==
    (placeReq[p].pc = "consensus" /\ placeReq'[p].pc = "debit") =>
        LET led == SessionLedger(placeReq[p].session)
            e == placeReq'[p].entry IN
        /\ led = <<>> => e.sum = 50 * e.n
        /\ led # <<>> => /\ e.n = Cardinality(C8_Judges(led))
                         /\ e.sum \in C8_Sums(led)

C10_Insert(p, exact) ==
    (placeReq[p].pc = "insert" /\ Len(trades') = Len(trades) + 1) =>
        LET t == trades'[Len(trades')] IN
        /\ t.status = "pending"
        /\ IF exact THEN IsExact2(t.entrySentiment, placeReq[p].entry)
           ELSE IsRounded2(t.entrySentiment, placeReq[p].entry)

C10_EntryRounded ==
    [][\A p \in PlaceReqs : C10_Read(p) /\ C10_Insert(p, FALSE)]_vars

\* C10 as claimed: the entrySentiment equals the consensus
C10_EntryExact ==
    [][\A p \in PlaceReqs : C10_Read(p) /\ C10_Insert(p, TRUE)]_vars

\* C10 witness: a trade of 50.00 placed and entered at 0 on a session whose
\* two snapshots rate 0
C10_Witness ==
    /\ Len(trades) = 1
    /\ trades[1].entrySentiment = 0
    /\ trades[1].amount = 5000
    /\ placeReq[1].pc = "idle"
    /\ Len(ledger) = 2
    /\ \A i \in DOMAIN ledger : ledger[i].rating = 0
    /\ traders[1].totalTrades = 1
    /\ traders[1].balance = 5000

\* C11: a trade row is created only while its session is live and, when the
\* session has a trading window, not after the window's end, whatever
\* startSession and settleSession do meanwhile.
C11_TradeOnlyWhileOpen ==
    [][Len(trades') > Len(trades) =>
          LET t == trades'[Len(trades')] IN
          /\ sessions[t.sessionId].status = "live"
          /\ ~ WindowClosed(sessions[t.sessionId])]_vars

\* C12 (helper): the responses of the request-body validation
C12_ValidationErrors ==
    {"sessionId, direction, and amount are required",
     "Direction must be \"over\" or \"under\"",
     "Amount must be between 0.01 and 50"}

\* C12: a placeTrade whose direction is not over or under, or whose amount is
\* not above 0 or is above 50, is answered with a validation error whatever the
\* state of the store; the rejection changes no trader row and no trade row and
\* creates no trader; no such request is ever taken further or stored.
C12_RejectsInvalid ==
    /\ [](\A s \in 1..MainSessions, d \in AdmissionDirections, a \in AdmissionAmounts :
            (d \notin {"over", "under"} \/ a <= 0 \/ a > 5000) =>
                PlaceError(s, d, a) \in C12_ValidationErrors)
    /\ [][/\ (reply' # reply /\ reply'.op = "placeTrade"
                /\ reply'.error \in C12_ValidationErrors) =>
                  (traders' = traders /\ trades' = trades /\ placeReq' = placeReq)
           /\ \A p \in PlaceReqs :
                  placeReq'[p].pc # "idle" =>
                      /\ placeReq'[p].direction \in {"over", "under"}
                      /\ placeReq'[p].amount > 0
                      /\ placeReq'[p].amount <= 5000
           /\ \A i \in DOMAIN trades' :
                  /\ trades'[i].direction \in {"over", "under"}
                  /\ trades'[i].amount > 0
                  /\ trades'[i].amount <= 5000]_vars

\* C12 witness: an amount above 50 is rejected on a live session after a trade
\* of 50.00 was placed there; the trader's row and the trade are as they were
C12_Witness ==
    /\ reply = Reply("placeTrade", 400, "Amount must be between 0.01 and 50")
    /\ sessions[1].status = "live"
    /\ Len(trades) = 1
    /\ trades[1].amount = 5000
    /\ traders[1].balance = 5000
    /\ traders[1].totalTrades = 1
    /\ \A p \in PlaceReqs : placeReq[p].pc = "idle"

\* C13: a session is made live, and its actualStart and tradingWindowEnd are
\* written, only by a step taken while its status is scheduled: a start of a
\* live or completed session changes nothing, and of two starts the second
\* never overwrites what the first wrote.
C13_StartOnlyScheduled ==
    [][\A s \in Sessions :
          (\/ sessions'[s].actualStart # sessions[s].actualStart
           \/ sessions'[s].tradingWindowEnd # sessions[s].tradingWindowEnd
           \/ (sessions'[s].status = "live" /\ sessions[s].status # "live")) =>
              sessions[s].status = "scheduled"]_vars

\* C14 (helper): the user's trades settled as a win or as a loss
C14_Resolved(u) ==
    {i \in DOMAIN trades :
        trades[i].userId = u /\ trades[i].status = "settled"
        /\ trades[i].outcome \in {"win", "loss"}}

\* C14: a settled trade never changes again (status, outcome, payout and
\* finalSentiment stay as written), and each trade is counted on its trader's
\* row at most once: the wins and losses counted on a trader never exceed the
\* trader's trades settled as a win or a loss.
C14_SettledOnce ==
    /\ [][\A i \in DOMAIN trades :
              trades[i].status = "settled" => trades'[i] = trades[i]]_vars
    /\ [](\A u \in Users :
              traders[u].exists =>
                  traders[u].winningTrades + traders[u].losingTrades
                      <= Cardinality(C14_Resolved(u)))

\* C15: a snapshot is appended only while its session is live and only for a
\* judge whose record is active: the ledger of a session that is not live
\* (scheduled, completed) never grows, settleSession running or not.
C15_AppendOnlyWhileLive ==
    [][Len(ledger') > Len(ledger) =>
          LET x == ledger'[Len(ledger')] IN
          /\ sessions[x.sessionId].status = "live"
          /\ judges[x.judgeId].status = "active"]_vars

\* C16 (helper): a consensus sum/n lies in [0, 100]
C16_InRange(avg) == avg.n = 0 \/ (0 <= avg.sum /\ avg.sum <= 100 * avg.n)

\* C16: every stored snapshot holds an integer rating in [0, 100]: 0 for a
\* submitted value below 0, 100 for one above 100, otherwise an integer nearest
\* to the submitted value; every consensus computed or broadcast and every
\* stored finalConsensus lies in [0, 100].
C16_RatingsInRange ==
    /\ [](/\ \A i \in DOMAIN ledger : ledger[i].rating \in 0..100
          /\ \A s \in Sessions :
                sessions[s].finalConsensus # Null =>
                    sessions[s].finalConsensus[1] \in 0..10000
          /\ \A s \in Sessions : \A i \in DOMAIN updates[s] :
                updates[s][i].consensus \in 0..10000
          /\ \A s \in Sessions : \A i \in DOMAIN ended[s] :
                ended[s][i].finalConsensus \in 0..10000
          /\ \A p \in RateReqs :
                rateReq[p].pc = "count" => C16_InRange(rateReq[p].consensus)
          /\ \A p \in SettleReqs :
                settleReq[p].pc \in {"complete", "trades"} =>
                    C16_InRange(settleReq[p].finalConsensus))
    /\ [][\A p \in RateReqs :
              (rateReq[p].pc = "insert" /\ rateReq'[p].pc = "consensus") =>
                  LET x == ledger'[Len(ledger')]
                      raw == rateReq[p].raw IN
                  /\ Len(ledger') = Len(ledger) + 1
                  /\ raw < 0 => x.rating = 0
                  /\ raw > 1000 => x.rating = 100
                  /\ (0 <= raw /\ raw <= 1000) =>
                        (10 * x.rating - raw \in (0 - 5)..5)]_vars

\* C16 witness: a submitted 200.0 stored as 100 next to a snapshot of 0 of the
\* other judge, on a session completed at a final consensus of 50.00
C16_Witness ==
    /\ \E p \in RateReqs :
          /\ rateReq[p].pc = "consensus"
          /\ rateReq[p].raw = 2000
    /\ Len(ledger) = 2
    /\ ledger[1].rating = 0
    /\ ledger[2].rating = 100
    /\ ledger[1].judgeId # ledger[2].judgeId
    /\ sessions[1].status = "completed"

\* C17 (helpers): the ratings of a test body whose anchorId names an anchor
\* song, and the sum of their absolute differences from the correct ratings
C17_Matched(body) == {i \in DOMAIN body : body[i].anchorId \in DOMAIN AnchorSongs}

RECURSIVE C17_Total(_, _)
C17_Total(body, i) ==
    IF i > Len(body) THEN 0
    ELSE C17_Total(body, i + 1)
         + (IF i \in C17_Matched(body)
            THEN Abs(body[i].rating - AnchorSongs[body[i].anchorId]) ELSE 0)

\* avgDeviation <= 15 and max(0, 100 - 2 avgDeviation) >= 60, for the mean T/m
C17_Passes(T, m) == T <= 15 * m /\ 100 * m - 2 * T >= 60 * m

\* C17 (helper): the response to a scored test reports the mean deviation T/m,
\* the score max(0, 100 - 2 T/m) and whether both thresholds are met
C17_Reports(r, T, m) ==
    /\ r.code = 200
    /\ r.avgDeviation.sum * m = T * r.avgDeviation.n
    /\ r.score.sum * m = (IF 100 * m >= 2 * T THEN 100 * m - 2 * T ELSE 0) * r.score.n
    /\ r.passed = C17_Passes(T, m)
    /\ T = 0 => (r.score.sum = 100 * r.score.n /\ r.passed)
    /\ T = 20 * m => (r.score.sum = 60 * r.score.n /\ ~ r.passed)

C18_Approved(u) == \E i \in AppsOf(u) : apps[i].status = "approved"

\* C18: a submitScreening that passed leaves the identity with an active
\* Judge and the application approved; one that failed leaves the application
\* rejected with a nextAttemptDate and the Judge records as they were; whenever
\* no screening request is being handled, a Judge record exists only for an
\* identity with an approved application.
C18_JudgeIffApproved ==
    /\ [][\A p \in ScreenReqs :
              LET r == screenReq[p] IN
              /\ (r.pc = "approve" /\ screenReq'[p].pc = "idle") =>
                    /\ judges'[r.user].status = "active"
                    /\ apps'[r.app].status = "approved"
              /\ (r.pc = "reject" /\ screenReq'[p].pc = "idle") =>
                    /\ apps'[r.app].status = "rejected"
                    /\ apps'[r.app].nextAttemptDate # Null
                    /\ judges' = judges]_vars
    /\ []((\A p \in ScreenReqs : screenReq[p].pc = "idle") =>
              \A u \in Applicants : judges[u].status # "none" => C18_Approved(u))

\* C19: an identity never has two applications in screening at once, and a
\* created application's attemptCount is the number of the identity's earlier
\* applications plus one.
C19_OneScreening ==
    [](\A u \in Applicants :
          /\ Cardinality({i \in AppsOf(u) : apps[i].status = "screening"}) <= 1
          /\ \A i \in AppsOf(u) :
                apps[i].attempts = Cardinality({k \in AppsOf(u) : k < i}) + 1)

\* C20: a rejected application's nextAttemptDate is 7 days after its
\* rejection; an apply that reads the applications before that date fails and
\* creates nothing, with the cooldown error carrying that date when the
\* rejected application is the identity's latest; one that reads them on or
\* after every such date is not answered with the cooldown error.
C20_Cooldown ==
    [][/\ \A i \in DOMAIN apps' :
              (apps'[i].status = "rejected" /\ apps[i].status # "rejected") =>
                  apps'[i].nextAttemptDate = <<now + 7>>
       /\ \A p \in ApplyReqs :
              (applyReq[p].pc = "latest" /\ applyReq'[p].pc # "latest") =>
                  LET blocking == {i \in AppsOf(applyReq[p].user) :
                                      /\ apps[i].status = "rejected"
                                      /\ apps[i].nextAttemptDate # Null
                                      /\ apps[i].nextAttemptDate[1] > now} IN
                  /\ blocking # {} =>
                        /\ applyReq'[p].pc = "idle"
                        /\ apps' = apps
                        /\ reply'.op = "apply"
                        /\ reply'.code = 400
                  /\ (blocking # {} /\ LatestApp(applyReq[p].user) \in blocking) =>
                        /\ reply'.error = "Cooldown period active"
                        /\ reply'.nextAttemptDate =
                              apps[LatestApp(applyReq[p].user)].nextAttemptDate
                  /\ blocking = {} =>
                        \/ applyReq'[p].pc = "count"
                        \/ /\ reply'.op = "apply"
                           /\ reply'.error # "Cooldown period active"]_vars

\* C21: getScreeningSet succeeds only on an application in screening, a
\* submitScreening is taken up only on one, and an application that is approved
\* or rejected keeps its status, score and deviation for ever, concurrent
\* submitScreening calls included.
C21_DecidedOnce ==
    [][/\ \A i \in DOMAIN apps :
              apps[i].status \in {"approved", "rejected"} =>
                  /\ apps'[i].status = apps[i].status
                  /\ apps'[i].screeningScore = apps[i].screeningScore
                  /\ apps'[i].screeningDeviation = apps[i].screeningDeviation
       /\ \A p \in ScreenReqs :
              (screenReq[p].pc = "idle" /\ screenReq'[p].pc # "idle") =>
                  apps[screenReq'[p].app].status = "screening"
       /\ (reply' # reply /\ reply'.op = "getScreeningSet" /\ reply'.code = 200) =>
              \E i \in DOMAIN apps : apps[i].status = "screening"]_vars

\* C22: session-ended is emitted at most once per session, for a completed
\* session, carrying the session's stored finalConsensus and judgeCount, and a
\* tradesSettled that is the number of the session's settled trades.
C22_EndedOnce ==
    [][\A s \in Sessions :
          ended'[s] # ended[s] =>
              LET e == ended'[s][Len(ended'[s])] IN
              /\ ended[s] = <<>>
              /\ sessions[s].status = "completed"
              /\ sessions[s].finalConsensus = <<e.finalConsensus>>
              /\ sessions[s].judgeCount = e.judgeCount
              /\ e.tradesSettled =
                    Cardinality({i \in DOMAIN trades :
                        trades[i].sessionId = s /\ trades[i].status = "settled"})]_vars

\* C23 (helper): the sums of one rating per judge of the session's rows led,
\* a most recent one for every judge but j, whose row is taken from rows
C23_Sums(led, j, rows) ==
    {C8_Sum(led, g, C8_Judges(led)) :
        g \in {h \in [C8_Judges(led) -> DOMAIN led] :
                  /\ h[j] \in rows
                  /\ \A x \in C8_Judges(led) \ {j} : h[x] \in C8_MostRecent(led, x)}}

\* C23 (helper): the rows of judge j stored no earlier than a row of j rating r
C23_NewOrLater(led, j, r) ==
    {i \in DOMAIN led :
        /\ led[i].judgeId = j
        /\ \E k \in DOMAIN led :
              k <= i /\ led[k].judgeId = j /\ led[k].rating = r}

\* C23 (helper): the consensus a rating handler reads is that of the ledger of
\* this state, which holds the handler's snapshot, with the handler's judge
\* contributing a row of rows(led, judge, rating)
C23_Read(p, strict) ==
    (rateReq[p].pc = "consensus" /\ rateReq'[p].pc = "count") =>
        LET r == rateReq[p]
            led == SessionLedger(r.session)
            c == rateReq'[p]
            rows == IF strict THEN C23_NewOrLater(led, r.judge, r.rating)
                    ELSE C8_MostRecent(led, r.judge) IN
        /\ \E i \in DOMAIN led : led[i].judgeId = r.judge /\ led[i].rating = r.rating
        /\ c.judgeCount >= 1
        /\ c.judgeCount = Cardinality(C8_Judges(led))
        /\ \E sum \in C23_Sums(led, r.judge, rows) :
              c.consensus.sum * c.judgeCount = sum * c.consensus.n

\* C23 (helper): consensus-update events are emitted one at a time, by a rating
\* handler that has read the consensus, with what it read
C23_Emit ==
    /\ \A p \in RateReqs :
          (rateReq[p].pc = "count" /\ rateReq'[p].pc # "count") =>
              LET r == rateReq[p] IN
              /\ Len(updates'[r.session]) = Len(updates[r.session]) + 1
              /\ LET e == updates'[r.session][Len(updates'[r.session])] IN
                 /\ e.judgeCount = r.judgeCount
                 /\ IsRounded2(e.consensus, r.consensus)
    /\ updates' # updates =>
          \E p \in RateReqs :
              /\ rateReq[p].pc = "count"
              /\ rateReq'[p].pc # "count"
              /\ updates' = [updates EXCEPT ![rateReq[p].session] =
                                Append(@, updates'[rateReq[p].session]
                                              [Len(updates'[rateReq[p].session])])]

\* C23 (helper): every stored snapshot has had its consensus-update, or its
\* handler is about to read the consensus or to emit
C23_OnePerRating ==
    \A s \in Sessions :
        Len(SessionLedger(s)) =
            Len(updates[s])
            + Cardinality({p \in RateReqs : /\ rateReq[p].pc \in {"consensus", "count"}
                                            /\ rateReq[p].session = s})

C24_Close(t) ==
    /\ t.status = "settled"
    /\ Abs(t.finalSentiment[1] - t.entrySentiment) < 50

\* C24 (helper): placeTrade takes the amount off the balance and leaves
\* totalProfitLoss, the streaks and the win and loss counts alone; the
\* settlement of a trade within 0.5 of its entry makes it a push, paid back in
\* full, and gives the amount back, leaving the same fields alone
C24_Steps ==
    /\ \A p \in PlaceReqs :
          (placeReq[p].pc = "debit" /\ placeReq'[p].pc = "insert") =>
              LET u == placeReq[p].user IN
              traders'[u] = [traders[u] EXCEPT
                                !.balance = @ - placeReq[p].amount,
                                !.totalTrades = @ + 1]
    /\ \A p \in SettleReqs :
          (settleReq[p].pc = "trader" /\ settleReq'[p].pc # "trader") =>
              LET t == trades[Head(settleReq[p].rows)] IN
              C24_Close(t) =>
                  /\ t.outcome = "push"
                  /\ t.payout = <<t.amount>>
                  /\ traders'[t.userId] =
                         [traders[t.userId] EXCEPT !.balance = @ + t.amount]

C25_Step ==
    \A p \in SettleReqs :
        (settleReq[p].pc = "judge" /\ judges' # judges) =>
            \E j \in Contributors(ledger, settleReq[p].session) :
                /\ judges'[j].sessionsJudged = judges[j].sessionsJudged + 1
                /\ judges'[j].totalRatings =
                       judges[j].totalRatings
                       + Cardinality(JudgeRows(ledger, settleReq[p].session, j))
                /\ \A k \in JudgeIds \ {j} : judges'[k] = judges[k]

\* C25: a settlement counts, for every judge with a snapshot in the session,
\* one more session judged and that judge's snapshots of the session; whenever
\* no request is being handled every judge's sessionsJudged is the number of
\* completed sessions it has a snapshot in, and its totalRatings the number of
\* its snapshots in completed sessions.
C25_JudgeCounts ==
    /\ [](InFlight = 0 =>
             \A j \in JudgeIds :
                 /\ judges[j].sessionsJudged =
                        Cardinality({s \in Sessions :
                                        /\ sessions[s].status = "completed"
                                        /\ j \in Contributors(ledger, s)})
                 /\ judges[j].totalRatings =
                        Cardinality({i \in DOMAIN ledger :
                                        /\ ledger[i].judgeId = j
                                        /\ sessions[ledger[i].sessionId].status
                                               = "completed"}))
    /\ [][C25_Step]_vars

\* C26 (helper): a settlement of session s has failed midway: the session is
\* completed, no settlement of it is running, no session-ended was emitted,
\* and trades of it are pending
C26_Failed(s) ==
    /\ sessions[s].status = "completed"
    /\ ended[s] = <<>>
    /\ \A p \in SettleReqs : settleReq[p].pc # "idle" => settleReq[p].session # s
    /\ \E i \in DOMAIN trades : trades[i].sessionId = s /\ trades[i].status = "pending"

\* C26: after a settlement that failed between marking the session completed
\* and resolving all its pending trades, the session stays completed, no later
\* settleSession on it gets past the status check, and its pending trades stay
\* pending.
C26_StuckAfterFailure ==
    [][\A s \in Sessions :
          C26_Failed(s) =>
              /\ sessions'[s].status = "completed"
              /\ \A p \in SettleReqs :
                    settleReq'[p].pc # "idle" => settleReq'[p].session # s
              /\ \A i \in DOMAIN trades :
                    (trades[i].sessionId = s /\ trades[i].status = "pending") =>
                        trades'[i] = trades[i]]_vars

\* C27: once a settleSession on a session has returned successfully (its
\* session-ended is emitted with the response), no trade of the session is
\* pending, in that state or in any later one.
C27_NoPendingAfterSettle ==
    \A s \in Sessions :
        ended[s] # <<>> =>
            \A i \in DOMAIN trades :
                trades[i].sessionId = s => trades[i].status # "pending"

\* C28 (helper): the sum of the amounts of trader u's pending trades from row i on
RECURSIVE C28_PendingSum(_, _)
C28_PendingSum(u, i) ==
    IF i > Len(trades) THEN 0
    ELSE C28_PendingSum(u, i + 1)
         + (IF trades[i].userId = u /\ trades[i].status = "pending"
            THEN trades[i].amount ELSE 0)

\* C28 (helper): the number of trader u's trades that are pending or settled as a push
C28_Open(u) ==
    Cardinality({i \in DOMAIN trades :
                    /\ trades[i].userId = u
                    /\ \/ trades[i].status = "pending"
                       \/ trades[i].status = "settled" /\ trades[i].outcome = "push"})

\* C28: conservation of play money: whenever no placeTrade and no settleSession
\* is being handled, every trader has balance = 100.00 + totalProfitLoss - the
\* amounts of its pending trades, and totalTrades = winningTrades + losingTrades
\* + its push-settled trades + its pending trades.
C28_Conservation ==
    ((\A p \in PlaceReqs : placeReq[p].pc = "idle")
     /\ (\A p \in SettleReqs : settleReq[p].pc = "idle")) =>
        \A u \in Users :
            traders[u].exists =>
                /\ traders[u].balance =
                       10000 + traders[u].totalProfitLoss - C28_PendingSum(u, 1)
                /\ traders[u].totalTrades =
                       traders[u].winningTrades + traders[u].losingTrades + C28_Open(u)

\* C29 (helper): the precedence rule on an entry e and a final consensus f in
\* hundredths: push within 0.5, else win by direction, else loss
C29_Rule(direction, e, f) ==
    IF Abs(f - e) < 50 THEN "push"
    ELSE IF direction = "over" /\ f > e THEN "win"
    ELSE IF direction = "under" /\ f < e THEN "win"
    ELSE "loss"

\* C29: whenever no settlement is being handled, every settled trade carries
\* the stored finalConsensus of its session as finalSentiment and the outcome
\* the precedence rule gives for its direction, its entrySentiment and that
\* stored finalConsensus.
C29_SettledAtStored ==
    (\A p \in SettleReqs : settleReq[p].pc = "idle") =>
        \A i \in DOMAIN trades :
            trades[i].status = "settled" =>
                LET row == sessions[trades[i].sessionId] IN
                /\ row.finalConsensus # Null
                /\ trades[i].finalSentiment = row.finalConsensus
                /\ trades[i].outcome =
                       C29_Rule(trades[i].direction, trades[i].entrySentiment,
                                row.finalConsensus[1])

\* C30: once a session is completed no operation changes its stored
\* finalConsensus or judgeCount, a submit-rating handler that passed its live
\* check before the settlement included.
C30_FinalFrozen ==
    [][\A s \in Sessions :
          sessions[s].status = "completed" =>
              /\ sessions'[s].finalConsensus = sessions[s].finalConsensus
              /\ sessions'[s].judgeCount = sessions[s].judgeCount]_vars
====
